---- MODULE Spec2Model ----
(***************************************************************************)
(* Model of the two procedural routines of StoryTime AI:                   *)
(*   - FFmpegVideoGenerator (src/lib/video/ffmpeg-generator.ts): the       *)
(*     engine load and the generateVideo pipeline, one action per await    *)
(*     point, over the engine's in-memory filesystem;                      *)
(*   - generateStory / generateTemplateStory (src/lib/ai/huggingface.ts)   *)
(*     and generateStoryAction (src/app/actions/ai-actions.ts).            *)
(***************************************************************************)
EXTENDS Integers, Sequences, FiniteSets, TLC

(***************************************************************************)
(* Bounds                                                                  *)
(***************************************************************************)
\* longest scene list passed to generateVideo
MaxScenes == 2
\* number of generateVideo calls made one after the other on the one
\* generator instance
MaxRuns == 1

\* longest prompt, counted in pieces of PromptPieces
MaxPieces == 4

\* longest prompt passed to generateStoryAction, in pieces
MaxActionPieces == 1
\* most sentences (longer than 10 characters) in a generated text
MaxSentences == 6
\* longest scene list of the calls that exercise the audio pass
MaxAudioScenes == 3
\* number of addCreditsAction calls that succeed
MaxTopUps == 1
\* most rows of the characters table
MaxCharacters == 1
\* how many times a long prompt says its piece
MaxRepeats == 13

\* the calls made one after the other
SerialRuns == 1..MaxRuns

\* the overlapping scenario: two calls in flight at once
OverlapRuns == {1, 2}

\* every call of the model has a frame in run
Runs == SerialRuns \cup OverlapRuns

\* the VideoScene values a caller may put in a scene list
\* (imageUrl, duration, optional audioUrl)
NoAudio == "undefined"
SilentScene == [imageUrl |-> "x", duration |-> 2, audioUrl |-> NoAudio]
NarratedScene == [imageUrl |-> "y", duration |-> 3, audioUrl |-> "a.mp3"]
SceneChoices == { SilentScene, NarratedScene }
\* a second scene with narration, with an audio asset of its own
NarratedScene2 == [imageUrl |-> "z", duration |-> 1, audioUrl |-> "b.mp3"]

\* the text a prompt is put together from: key words of the patterns of
\* generateTemplateStory, words of several lengths and cases, digits, blanks
PromptPieces ==
  { <<"t", "w", "o", " ">>,
    <<"a", "n", "d", " ">>,
    <<"a", " ">>,
    <<"c", "a", "t", "s", " ">>,
    <<"B", "o">>,
    <<"1", "2", "3", "4", "5">>,
    <<"w", "h", "o">>,
    <<"a", "b", "o", "u", "t", " ">>,
    <<"s", "t", "o", "r", "y", " ", "o", "f", " ">>,
    <<" ">> }

RECURSIVE SeqsUpTo(_, _)
SeqsUpTo(S, n) ==
  IF n = 0 THEN { <<>> }
  ELSE LET shorter == SeqsUpTo(S, n - 1)
       IN  shorter \cup { Append(s, x) : s \in { t \in shorter : Len(t) = n - 1 }, x \in S }

SceneLists == SeqsUpTo(SceneChoices, MaxScenes)

RECURSIVE Flatten(_)
Flatten(q) == IF Len(q) = 0 THEN << >> ELSE Head(q) \o Flatten(Tail(q))

\* the prompts: every concatenation of at most MaxPieces pieces
Prompts == { Flatten(q) : q \in SeqsUpTo(PromptPieces, MaxPieces) }

\* long prompts: a piece said up to MaxRepeats times, after a blank or not
RECURSIVE Repeat(_, _)
Repeat(w, n) == IF n = 0 THEN << >> ELSE w \o Repeat(w, n - 1)

LongPrompts ==
  { lead \o Repeat(w, n) :
      lead \in { << >>, <<" ">> },
      w \in { <<"c", "a", "t", "s", " ">>, <<"B", "o">>, <<" ">>,
              <<"s", "t", "o", "r", "y", " ", "o", "f", " ">> },
      n \in 0..MaxRepeats }

\* the scene lists of the two overlapping calls
OverlapSceneLists ==
  { << SilentScene >>, << NarratedScene >>, << NarratedScene, NarratedScene >> }

(***************************************************************************)
(* State                                                                   *)
(***************************************************************************)
VARIABLES
  hf,          \* the module constant hf of huggingface.ts is not null
  action,      \* a call of generateStoryAction
  tpl,         \* a call of generateTemplateStory: its arguments and its value
  loaded,      \* FFmpegVideoGenerator.loaded
  fs,          \* the engine filesystem of this.ffmpeg: file name -> entry
  run,         \* one frame per generateVideo call
  loadsDone,   \* number of times this.ffmpeg.load(...) has completed
  preload,     \* position of a direct load() call made by the page
  db,          \* the database rows the model follows
  reply,       \* the object returned by the last server action that changes db
  page,        \* the preview page: its state and the position of handleExport
  topup,       \* one frame per addCreditsAction call
  editor,      \* the story editor page: its state and its chain of loads
  carousel     \* a mounted SceneCarousel and its parent's isPlaying

videoVars == <<loaded, fs, run, loadsDone, preload>>
uiVars == <<topup, editor, carousel>>
storyVars == <<hf, action, tpl, db, reply, page, uiVars>>
vars == <<hf, action, tpl, loaded, fs, run, loadsDone, preload, db, reply, page,
         topup, editor, carousel>>

\* file names of the engine filesystem
SceneFile(i)   == <<"scene", i>>       \* `scene_${i}.png`
SegmentFile(i) == <<"segment", i>>     \* `segment_${i}.mp4`
AudioFile(i)   == <<"audio", i>>       \* `audio_${i}.mp3`
ConcatTxt      == <<"concat.txt">>
OutputVideo    == <<"output_video.mp4">>
CombinedAudio  == <<"combined_audio.aac">>
FinalOutput    == <<"final_output.mp4">>

\* every call writing under names of its own
WriteFile_PerRun(f, name, r, data) ==
  [n \in (DOMAIN f) \cup {name \o <<"run", r>>} |->
     IF n = name \o <<"run", r>> THEN [by |-> r, data |-> data] ELSE f[n]]

\* ffmpeg.writeFile / the output of ffmpeg.exec: (over)write one file
WriteFile(f, name, r, data) ==
  [n \in (DOMAIN f) \cup {name} |-> IF n = name THEN [by |-> r, data |-> data] ELSE f[n]]

\* the order of the stages of VideoGenerationProgress
StageRank(s) ==
  CASE s = "loading"    -> 1
    [] s = "preparing"  -> 2
    [] s = "encoding"   -> 3
    [] s = "finalizing" -> 4
    [] s = "complete"   -> 5

\* a progress event; progress is the rational num/den
Ev(stage, num, den) == [stage |-> stage, num |-> num, den |-> den]
ProgressLeq(a, b) == a.num * b.den <= b.num * a.den

IdleFrame ==
  [ pc            |-> "idle",
    scenes        |-> <<>>,
    i             |-> 0,
    videoSegments |-> <<>>,
    videoData     |-> <<>>,     \* what readFile returned in the audio catch block
    events        |-> <<>>,     \* the calls of onProgress, in order
    result        |-> <<>>,     \* <<blob>> once the call has returned a Blob
    error         |-> <<>>,     \* <<e>> once the call has rejected with e
    fetched       |-> <<>>,     \* the indices of the scene images fetched
    execs         |-> <<>>,     \* the ffmpeg.exec commands issued
    audioFailed   |-> FALSE,    \* a step of the audio pass has rejected
    silent        |-> <<>>,     \* <<output_video.mp4>> as produced by pass B
    didLoad       |-> FALSE,    \* this call went through the engine load
    failure       |-> <<>> ]    \* <<[step, index]>>: the await that rejected first

\* scenes.filter((s) => s.audioUrl)
AudioScenes(scenes) == SelectSeq(scenes, LAMBDA s : s.audioUrl # NoAudio)

\* FFmpegVideoGenerator.cleanup: the body is empty, nothing is deleted
cleanup(f) == f

(***************************************************************************)
(* generateVideo, one action per await point.  r is the call.              *)
(***************************************************************************)
\* the onProgress calls made when a loop over the scenes is entered at
\* index i = 0: with no scene the loop body never runs
EnterPreparing == << Ev("preparing", 10, 1) >>

\* onProgress after scene i was staged: 10 + (i / scenes.length) * 30
PreparingProgress(i, n) == Ev("preparing", 10 * n + i * 30, n)
\* onProgress after scene i was encoded: 50 + (i / scenes.length) * 20
EncodingProgress(i, n) == Ev("encoding", 50 * n + i * 20, n)

\* the error generateVideo rejects with from its outer catch block:
\* new Error(`Failed to generate video: ${error.message}`)
Wrapped(kind, scene) == [kind |-> kind, scene |-> scene, wrapped |-> TRUE]
\* the error load() throws; generateVideo awaits load outside its try block
LoadError == [kind |-> "load_encoder", scene |-> 0, wrapped |-> FALSE]

\* the await of the given step (and loop index) of frame f rejects
Rejected(f, step, index) ==
  IF Len(f.failure) = 0 THEN [f EXCEPT !.failure = << [step |-> step, index |-> index] >>] ELSE f

\* the message built from the loop index, as the console.error line does
imageError_ZeroBased(i) == Wrapped("scene_image", i)

\* the error thrown in the image loop for index i:
\* `Failed to load scene ${i + 1} image. ...`
imageError(i) == Wrapped("scene_image", i + 1)
\* the message built from the loop index, as the console.error line
\* `Failed to create segment ${i}:` does
segmentError_ZeroBased(i) == Wrapped("scene_encode", i)

\* the error thrown in the segment loop for index i:
\* `Failed to encode scene ${i + 1}. ...`
segmentError(i) == Wrapped("scene_encode", i + 1)
\* "Failed to combine video scenes. ..."
concatError == Wrapped("combine", 0)
\* any other error caught by the outer catch block
otherError == Wrapped("other", 0)

\* "complete" reported on the way out of the call, as a finally block would
Reject_ReportsComplete(r, f, e) ==
  /\ run' = [run EXCEPT ![r] = [f EXCEPT !.pc = "failed", !.error = << e >>,
                                         !.events = Append(@, Ev("complete", 100, 1))]]
  /\ fs' = cleanup(fs)

\* outer catch + finally of generateVideo, from frame f of call r
Reject(r, f, e) ==
  /\ run' = [run EXCEPT ![r] = [f EXCEPT !.pc = "failed", !.error = << e >>]]
  /\ fs' = cleanup(fs)

\* the code after the image loop has ended: report encoding 50 and enter
\* the segment loop, or, with no scene, go on to build concat.txt
AfterImages(f) ==
  [f EXCEPT !.pc = IF Len(f.scenes) = 0 THEN "write_concat" ELSE "segment",
            !.i = 0,
            !.events = @ \o << Ev("encoding", 50, 1) >>]

\* the code from the try block's first statement up to the first await
EnterTry(f) ==
  LET g == [f EXCEPT !.events = @ \o EnterPreparing, !.i = 0]
  IN  IF Len(f.scenes) = 0 THEN AfterImages(g) ELSE [g EXCEPT !.pc = "image"]

\* generateVideo(scenes, options, onProgress) is called.  If the engine is
\* loaded the call runs up to its first await inside the try block;
\* otherwise it enters load(), reports loading 0 and awaits the engine.
StartCall(r, scenes) ==
  /\ run[r].pc = "idle"
  /\ LET f == [run[r] EXCEPT !.scenes = scenes]
     IN  IF loaded
         THEN run' = [run EXCEPT ![r] = EnterTry(f)]
         ELSE run' = [run EXCEPT ![r] = [f EXCEPT !.pc = "loading",
                                                  !.didLoad = TRUE,
                                                  !.events = << Ev("loading", 0, 1) >>]]
  /\ UNCHANGED <<loaded, fs, loadsDone, preload>>

\* a call of generateVideo by a caller the model does not follow
GenerateVideo(r, scenes) ==
  /\ StartCall(r, scenes)
  /\ UNCHANGED storyVars

\* await this.ffmpeg.load(...) resolves
LoadOk(r) ==
  /\ run[r].pc = "loading"
  /\ loaded' = TRUE
  /\ loadsDone' = loadsDone + 1
  /\ run' = [run EXCEPT ![r] =
               EnterTry([run[r] EXCEPT !.events = @ \o << Ev("loading", 100, 1) >>])]
  /\ UNCHANGED <<fs, preload, storyVars>>

\* toBlobURL or this.ffmpeg.load rejects: load() throws, and generateVideo
\* rejects with that error; the try/finally of generateVideo is not entered
LoadFail(r) ==
  /\ run[r].pc = "loading"
  /\ run' = [run EXCEPT ![r] = [Rejected(run[r], "load", 0) EXCEPT
                                  !.pc = "failed", !.error = << LoadError >>]]
  /\ UNCHANGED <<loaded, fs, loadsDone, preload, storyVars>>

\* one iteration of the image loop: fetchFile + writeFile of scene i
FetchImageOk(r) ==
  /\ run[r].pc = "image"
  /\ LET f == run[r]
         i == f.i
         g == [f EXCEPT !.fetched = Append(@, i),
                        !.events = Append(@, PreparingProgress(i, Len(f.scenes))),
                        !.i = i + 1]
     IN  /\ fs' = WriteFile(fs, SceneFile(i), r, f.scenes[i + 1].imageUrl)
         /\ run' = [run EXCEPT ![r] = IF i + 1 < Len(f.scenes) THEN g ELSE AfterImages(g)]
  /\ UNCHANGED <<loaded, loadsDone, preload, storyVars>>

\* fetchFile or writeFile of scene i rejects
FetchImageFail(r) ==
  /\ run[r].pc = "image"
  /\ Reject(r, Rejected(run[r], "image", run[r].i), imageError(run[r].i))
  /\ UNCHANGED <<loaded, loadsDone, preload, storyVars>>

\* an ffmpeg.exec command: its input files, its -t argument (0 if none) and
\* its output file
Exec(cmd, inputs, t, output) == [cmd |-> cmd, inputs |-> inputs, t |-> t, output |-> output]

\* the exec of pass A for scene i:
\* -loop 1 -i scene_${i}.png -t String(scene.duration) ... segment_${i}.mp4
SegmentExec(f) ==
  Exec("segment", << SceneFile(f.i) >>, f.scenes[f.i + 1].duration, SegmentFile(f.i))

\* every segment encoded from the first scene's image and duration
SegmentData_FirstScene(f, files) ==
  [image |-> files[SceneFile(0)], duration |-> f.scenes[1].duration]

\* what that command writes: the staged image it reads, for the duration -t
SegmentData(f, files) ==
  [image |-> files[SceneFile(f.i)], duration |-> f.scenes[f.i + 1].duration]

\* one iteration of the segment loop: exec resolves, the segment is pushed
EncodeSegmentOk(r) ==
  /\ run[r].pc = "segment"
  /\ LET f == run[r]
         i == f.i
     IN  /\ fs' = WriteFile(fs, SegmentFile(i), r, SegmentData(f, fs))
         /\ run' = [run EXCEPT ![r] =
                      [f EXCEPT !.execs = Append(@, SegmentExec(f)),
                                !.videoSegments = Append(@, SegmentFile(i)),
                                !.events = Append(@, EncodingProgress(i, Len(f.scenes))),
                                !.i = i + 1,
                                !.pc = IF i + 1 < Len(f.scenes) THEN "segment" ELSE "write_concat"]]
  /\ UNCHANGED <<loaded, loadsDone, preload, storyVars>>

\* the exec of scene i's segment rejects
EncodeSegmentFail(r) ==
  /\ run[r].pc = "segment"
  /\ Reject(r, Rejected(run[r], "segment", run[r].i), segmentError(run[r].i))
  /\ UNCHANGED <<loaded, loadsDone, preload, storyVars>>

\* concat.txt is written from videoSegments; then "Combining scenes..." 70
WriteConcat(r) ==
  /\ run[r].pc = "write_concat"
  /\ fs' = WriteFile(fs, ConcatTxt, r, run[r].videoSegments)
  /\ run' = [run EXCEPT ![r].pc = "concat",
                        ![r].events = Append(@, Ev("encoding", 70, 1))]
  /\ UNCHANGED <<loaded, loadsDone, preload, storyVars>>

\* what -f concat -i concat.txt -c copy writes: the listed files, in order
ConcatData(files) ==
  [segments |-> [k \in 1..Len(files[ConcatTxt].data) |-> files[files[ConcatTxt].data[k]]]]

\* the audio pass announced with the stage of the asset downloads
AfterConcat_StageSlip(f) ==
  IF Len(AudioScenes(f.scenes)) > 0
  THEN [f EXCEPT !.pc = "audio", !.i = 0,
                 !.events = Append(@, Ev("preparing", 75, 1))]
  ELSE [f EXCEPT !.pc = "read_output",
                 !.events = Append(@, Ev("finalizing", 90, 1))]

\* the code after the concatenation: the audio pass is entered only if
\* audioScenes.length > 0
AfterConcat(f) ==
  IF Len(AudioScenes(f.scenes)) > 0
  THEN [f EXCEPT !.pc = "audio", !.i = 0,
                 !.events = Append(@, Ev("encoding", 75, 1))]
  ELSE [f EXCEPT !.pc = "read_output",
                 !.events = Append(@, Ev("finalizing", 90, 1))]

\* pass B: the concat exec resolves
ConcatOk(r) ==
  /\ run[r].pc = "concat"
  /\ LET f == run[r]
         data == ConcatData(fs)
     IN  /\ fs' = WriteFile(fs, OutputVideo, r, data)
         /\ run' = [run EXCEPT ![r] =
                      AfterConcat([f EXCEPT !.execs = Append(@, Exec("concat", << ConcatTxt >>, 0, OutputVideo)),
                                            !.silent = << data >>])]
  /\ UNCHANGED <<loaded, loadsDone, preload, storyVars>>

\* pass B: the concat exec rejects
ConcatFail(r) ==
  /\ run[r].pc = "concat"
  /\ Reject(r, Rejected(run[r], "concat", 0), concatError)
  /\ UNCHANGED <<loaded, loadsDone, preload, storyVars>>

\* the audio error rethrown instead of handled
AudioCatch_Rethrow(f) == [f EXCEPT !.pc = "failed", !.error = << otherError >>]

\* audio pass: the catch block of the inner try is entered
AudioCatch(f) == [f EXCEPT !.pc = "fallback_read"]

\* audio pass: fetchFile + writeFile of audio_${i}.mp3
FetchAudioOk(r) ==
  /\ run[r].pc = "audio"
  /\ LET f == run[r]
         i == f.i
         m == Len(AudioScenes(f.scenes))
     IN  /\ fs' = WriteFile(fs, AudioFile(i), r, AudioScenes(f.scenes)[i + 1].audioUrl)
         /\ run' = [run EXCEPT ![r] =
                      [f EXCEPT !.i = i + 1,
                                !.pc = IF i + 1 < m THEN "audio"
                                       ELSE IF m = 1 THEN "mux_single" ELSE "audio_concat"]]
  /\ UNCHANGED <<loaded, loadsDone, preload, storyVars>>

FetchAudioFail(r) ==
  /\ run[r].pc = "audio"
  /\ run' = [run EXCEPT ![r] = AudioCatch([Rejected(run[r], "audio", run[r].i)
                                            EXCEPT !.audioFailed = TRUE])]
  /\ UNCHANGED <<loaded, fs, loadsDone, preload, storyVars>>

\* what a mux command writes: the video track and the audio track it reads
MuxData(files, audioName) == [video |-> files[OutputVideo], audio |-> files[audioName]]

AfterAudio(f) ==
  [f EXCEPT !.pc = "read_final", !.events = Append(@, Ev("finalizing", 90, 1))]

\* audioScenes.length === 1: output_video.mp4 + audio_0.mp3 -> final_output.mp4
MuxSingleOk(r) ==
  /\ run[r].pc = "mux_single"
  /\ fs' = WriteFile(fs, FinalOutput, r, MuxData(fs, AudioFile(0)))
  /\ run' = [run EXCEPT ![r] =
               AfterAudio([run[r] EXCEPT !.execs =
                 Append(@, Exec("mux", << OutputVideo, AudioFile(0) >>, 0, FinalOutput))])]
  /\ UNCHANGED <<loaded, loadsDone, preload, storyVars>>

\* the inputs of the audio concatenation listed last to first
AudioInputs_Reversed(m) == [k \in 1..m |-> AudioFile(m - k)]

\* more than one audio scene: audio_0.mp3 .. audio_{m-1}.mp3 -> combined_audio.aac
AudioInputs(m) == [k \in 1..m |-> AudioFile(k - 1)]

AudioConcatOk(r) ==
  /\ run[r].pc = "audio_concat"
  /\ LET m == Len(AudioScenes(run[r].scenes))
     IN  /\ fs' = WriteFile(fs, CombinedAudio, r,
                            [tracks |-> [k \in 1..m |-> fs[AudioInputs(m)[k]]]])
         /\ run' = [run EXCEPT ![r].pc = "mux_combined",
                               ![r].execs = Append(@, Exec("audio_concat", AudioInputs(m), 0, CombinedAudio))]
  /\ UNCHANGED <<loaded, loadsDone, preload, storyVars>>

\* output_video.mp4 + combined_audio.aac -> final_output.mp4
MuxCombinedOk(r) ==
  /\ run[r].pc = "mux_combined"
  /\ fs' = WriteFile(fs, FinalOutput, r, MuxData(fs, CombinedAudio))
  /\ run' = [run EXCEPT ![r] =
               AfterAudio([run[r] EXCEPT !.execs =
                 Append(@, Exec("mux", << OutputVideo, CombinedAudio >>, 0, FinalOutput))])]
  /\ UNCHANGED <<loaded, loadsDone, preload, storyVars>>

\* an exec of the audio pass rejects
AudioExecFail(r) ==
  /\ run[r].pc \in {"mux_single", "audio_concat", "mux_combined"}
  /\ run' = [run EXCEPT ![r] = AudioCatch([Rejected(run[r], run[r].pc, 0)
                                            EXCEPT !.audioFailed = TRUE])]
  /\ UNCHANGED <<loaded, fs, loadsDone, preload, storyVars>>

\* catch block of the audio pass: videoData = readFile("output_video.mp4")
FallbackRead(r) ==
  /\ run[r].pc = "fallback_read"
  /\ IF OutputVideo \in DOMAIN fs
     THEN /\ run' = [run EXCEPT ![r].pc = "fallback_write",
                                ![r].videoData = << fs[OutputVideo].data >>]
          /\ fs' = fs
     ELSE Reject(r, Rejected(run[r], "readFile", 0), otherError)
  /\ UNCHANGED <<loaded, loadsDone, preload, storyVars>>

\* catch block of the audio pass: writeFile("final_output.mp4", videoData),
\* then "Finalizing video..." 90
FallbackWrite(r) ==
  /\ run[r].pc = "fallback_write"
  /\ fs' = WriteFile(fs, FinalOutput, r, run[r].videoData[1])
  /\ run' = [run EXCEPT ![r] = AfterAudio(run[r])]
  /\ UNCHANGED <<loaded, loadsDone, preload, storyVars>>

\* readFile(name), new Blob, "complete" 100, return blob; finally cleanup
ReadAndReturn(r, name) ==
  IF name \in DOMAIN fs
  THEN /\ run' = [run EXCEPT ![r].pc = "done",
                             ![r].result = << fs[name].data >>,
                             ![r].events = Append(@, Ev("complete", 100, 1))]
       /\ fs' = cleanup(fs)
  ELSE Reject(r, Rejected(run[r], "readFile", 0), otherError)

\* the branch with audio reads final_output.mp4
ReadFinal(r) ==
  /\ run[r].pc = "read_final"
  /\ ReadAndReturn(r, FinalOutput)
  /\ UNCHANGED <<loaded, loadsDone, preload, storyVars>>

\* the branch without audio reads output_video.mp4
ReadOutput(r) ==
  /\ run[r].pc = "read_output"
  /\ ReadAndReturn(r, OutputVideo)
  /\ UNCHANGED <<loaded, loadsDone, preload, storyVars>>

\* load() is called directly: it returns at once if the engine is loaded,
\* otherwise it awaits the engine
Load ==
  /\ preload \in {"idle", "done", "failed"}
  /\ preload' = IF loaded THEN "done" ELSE "loading"
  /\ UNCHANGED <<loaded, fs, run, loadsDone, storyVars>>

\* the engine load of a direct load() call resolves
PreloadOk ==
  /\ preload = "loading"
  /\ loaded' = TRUE
  /\ loadsDone' = loadsDone + 1
  /\ preload' = "done"
  /\ UNCHANGED <<fs, run, storyVars>>

\* the engine load of a direct load() call rejects
PreloadFail ==
  /\ preload = "loading"
  /\ preload' = "failed"
  /\ UNCHANGED <<loaded, fs, run, loadsDone, storyVars>>

\* one step of call r after it has started
Step(r) ==
  \/ LoadOk(r) \/ LoadFail(r)
  \/ FetchImageOk(r) \/ FetchImageFail(r)
  \/ EncodeSegmentOk(r) \/ EncodeSegmentFail(r)
  \/ WriteConcat(r)
  \/ ConcatOk(r) \/ ConcatFail(r)
  \/ FetchAudioOk(r) \/ FetchAudioFail(r)
  \/ MuxSingleOk(r) \/ AudioConcatOk(r) \/ MuxCombinedOk(r) \/ AudioExecFail(r)
  \/ FallbackRead(r) \/ FallbackWrite(r)
  \/ ReadFinal(r) \/ ReadOutput(r)

Ended(r) == run[r].pc \in {"done", "failed"}
Active(r) == run[r].pc \notin {"idle", "done", "failed"}

\* the caller serialises its calls (the export button is disabled while an
\* export runs): call r starts when every earlier call has ended
StartSerial ==
  \E r \in SerialRuns, scenes \in SceneLists :
    /\ \A q \in SerialRuns : q < r => Ended(q)
    /\ preload # "loading"
    /\ GenerateVideo(r, scenes)

LoadSerial ==
  /\ \A q \in Runs : ~Active(q)
  /\ Load

\* calls on the shared instance that may overlap
StartAny ==
  \E r \in OverlapRuns, scenes \in OverlapSceneLists :
    /\ \A q \in Runs : q < r => run[q].pc # "idle"
    /\ GenerateVideo(r, scenes)

(***************************************************************************)
(* Strings.  A string is a sequence of one-character strings, so that the  *)
(* regular expressions and the String methods of generateTemplateStory     *)
(* work on characters.                                                     *)
(***************************************************************************)
LowerLetters == <<"a", "b", "c", "d", "e", "f", "g", "h", "i", "j", "k", "l", "m", "n", "o", "p", "q", "r", "s", "t", "u", "v", "w", "x", "y", "z">>
UpperLetters == <<"A", "B", "C", "D", "E", "F", "G", "H", "I", "J", "K", "L", "M", "N", "O", "P", "Q", "R", "S", "T", "U", "V", "W", "X", "Y", "Z">>
Digits == {"0", "1", "2", "3", "4", "5", "6", "7", "8", "9"}

Range(q) == { q[k] : k \in DOMAIN q }
LowerSet == Range(LowerLetters)
UpperSet == Range(UpperLetters)

IndexIn(q, c) == CHOOSE k \in DOMAIN q : q[k] = c
UpperOf == [c \in LowerSet |-> UpperLetters[IndexIn(LowerLetters, c)]]
LowerOf == [c \in UpperSet |-> LowerLetters[IndexIn(UpperLetters, c)]]

\* String.prototype.toUpperCase / toLowerCase on one character
ToUpperChar(c) == IF c \in LowerSet THEN UpperOf[c] ELSE c
ToLowerChar(c) == IF c \in UpperSet THEN LowerOf[c] ELSE c
toUpperCase(w) == [k \in 1..Len(w) |-> ToUpperChar(w[k])]
toLowerCase(w) == [k \in 1..Len(w) |-> ToLowerChar(w[k])]

\* w.charAt(0): the empty string if w is empty
charAt0(w) == IF Len(w) = 0 THEN << >> ELSE << w[1] >>
\* w.slice(1)
slice1(w) == IF Len(w) <= 1 THEN << >> ELSE SubSeq(w, 2, Len(w))

\* the character classes \w, \s and [a-zA-Z]
WordChars == LowerSet \cup UpperSet \cup Digits \cup {"_"}
Letters == LowerSet \cup UpperSet
IsWordChar(c) == c \in WordChars
IsSpace(c) == c = " "
IsLetter(c) == c \in Letters

\* the position after the longest run of \w (of \s) that starts at p
RECURSIVE WordEnd(_, _)
WordEnd(s, p) == IF p <= Len(s) /\ IsWordChar(s[p]) THEN WordEnd(s, p + 1) ELSE p
RECURSIVE SpaceEnd(_, _)
SpaceEnd(s, p) == IF p <= Len(s) /\ IsSpace(s[p]) THEN SpaceEnd(s, p + 1) ELSE p

\* the literal lit (lower case) matches s at p, ignoring case (flag i)
LitAt(s, p, lit) ==
  /\ p + Len(lit) - 1 <= Len(s)
  /\ \A k \in 1..Len(lit) : ToLowerChar(s[p + k - 1]) = lit[k]

\* the position after the first literal of an alternation that matches s at
\* p, or 0 if none does
RECURSIVE AltAt(_, _, _)
AltAt(s, p, lits) ==
  IF Len(lits) = 0 THEN 0
  ELSE IF LitAt(s, p, Head(lits)) THEN p + Len(Head(lits))
  ELSE AltAt(s, p, Tail(lits))

\* the smallest position of a set of positions, 0 if the set is empty
FirstPos(S) == IF S = {} THEN 0 ELSE CHOOSE p \in S : \A q \in S : p <= q

\* the result of String.prototype.match without the g flag: null, or the
\* captured groups; has2 is FALSE where the second group is undefined
NoMatch == [ok |-> FALSE, g1 |-> << >>, has2 |-> FALSE, g2 |-> << >>]
Match1(w) == [ok |-> TRUE, g1 |-> w, has2 |-> FALSE, g2 |-> << >>]
Match2(w, v) == [ok |-> TRUE, g1 |-> w, has2 |-> TRUE, g2 |-> v]

\* the \w+ that starts at p
WordAt(s, p) == SubSeq(s, p, WordEnd(s, p) - 1)
HasWordAt(s, p) == WordEnd(s, p) > p
\* \s+ matches at p
HasSpaceAt(s, p) == SpaceEnd(s, p) > p

(***************************************************************************)
(* generateTemplateStory: character extraction                             *)
(***************************************************************************)
\* /two\s+(\w+)(?:\s+and\s+(\w+))?/i matched at position p
TwoAt(s, p) ==
  /\ LitAt(s, p, <<"t", "w", "o">>)
  /\ HasSpaceAt(s, p + 3)
  /\ HasWordAt(s, SpaceEnd(s, p + 3))

\* prompt.match(twoPattern)
twoMatch(s) ==
  LET p == FirstPos({ q \in 1..Len(s) : TwoAt(s, q) })
  IN  IF p = 0 THEN NoMatch
      ELSE LET w1 == SpaceEnd(s, p + 3)
               e1 == WordEnd(s, w1)
               a  == SpaceEnd(s, e1)
               w2 == SpaceEnd(s, a + 3)
           IN  IF a > e1 /\ LitAt(s, a, <<"a", "n", "d">>) /\ w2 > a + 3 /\ HasWordAt(s, w2)
               THEN Match2(WordAt(s, w1), WordAt(s, w2))
               ELSE Match1(WordAt(s, w1))

Adjectives == << <<"b", "r", "a", "v", "e">>, <<"l", "i", "t", "t", "l", "e">>, <<"y", "o", "u", "n", "g">>, <<"c", "u", "r", "i", "o", "u", "s">> >>

\* (?:brave|little|young|curious)?\s*(\w+) at q: the position where the
\* captured word starts, 0 if there is no match.  The adjective is tried
\* first; if no word follows it, it is given back and captured itself.
AdjWordAt(s, q) ==
  LET adj == AltAt(s, q, Adjectives)
  IN  IF adj > 0 /\ HasWordAt(s, SpaceEnd(s, adj)) THEN SpaceEnd(s, adj)
      ELSE IF HasWordAt(s, q) THEN q
      ELSE 0

\* what follows the optional (?:a\s+)? in a pattern: the adjective and the
\* word ("about"), or the word alone ("story of"); the start of the captured
\* word, 0 if there is no match at q
RestAt(s, q, pattern) ==
  IF pattern = "about" THEN AdjWordAt(s, q)
  ELSE IF HasWordAt(s, q) THEN q ELSE 0

\* (?:a\s+)? and what follows it, at q: the optional group is tried first
\* and given back if the rest does not match after it
OptA(s, q, pattern) ==
  IF LitAt(s, q, << "a" >>) /\ HasSpaceAt(s, q + 1)
     /\ RestAt(s, SpaceEnd(s, q + 1), pattern) > 0
  THEN RestAt(s, SpaceEnd(s, q + 1), pattern)
  ELSE RestAt(s, q, pattern)

\* /(?:about|featuring)\s+(?:a\s+)?(?:brave|little|young|curious)?\s*(\w+)/i
\* at p: the start of the captured word, 0 if there is no match at p
AboutAt(s, p) ==
  LET lit == AltAt(s, p, << <<"a", "b", "o", "u", "t">>, <<"f", "e", "a", "t", "u", "r", "i", "n", "g">> >>)
  IN  IF lit > 0 /\ HasSpaceAt(s, lit)
      THEN OptA(s, SpaceEnd(s, lit), "about")
      ELSE 0

Verbs == << <<"w", "h", "o">>, <<"t", "h", "a", "t">>, <<"g", "o", "e", "s">>, <<"l", "e", "a", "r", "n", "s">>, <<"d", "i", "s", "c", "o", "v", "e", "r", "s">>, <<"w", "a", "n", "t", "s">>, <<"l", "i", "k", "e", "s">> >>

\* /(\w+)\s+(?:who|that|goes|learns|discovers|wants|likes)/i at p
VerbAt(s, p) ==
  IF HasWordAt(s, p) /\ HasSpaceAt(s, WordEnd(s, p))
     /\ AltAt(s, SpaceEnd(s, WordEnd(s, p)), Verbs) > 0
  THEN p ELSE 0

\* /(?:story of|tale of)\s+(?:a\s+)?(\w+)/i at p
StoryOfAt(s, p) ==
  LET lit == AltAt(s, p, << <<"s", "t", "o", "r", "y", " ", "o", "f">>, <<"t", "a", "l", "e", " ", "o", "f">> >>)
  IN  IF lit > 0 /\ HasSpaceAt(s, lit)
      THEN OptA(s, SpaceEnd(s, lit), "story of")
      ELSE 0

\* /(?:a|the)\s+(\w+)\s+(?:and|with)/i at p
ArticleAt(s, p) ==
  LET lit == AltAt(s, p, << <<"a">>, <<"t", "h", "e">> >>)
      w   == SpaceEnd(s, lit)
      e   == WordEnd(s, w)
  IN  IF lit > 0 /\ w > lit /\ e > w /\ HasSpaceAt(s, e)
         /\ AltAt(s, SpaceEnd(s, e), << <<"a", "n", "d">>, <<"w", "i", "t", "h">> >>) > 0
      THEN w ELSE 0

\* prompt.match(pattern) for the four characterPatterns, in their order
patternMatch(s, k) ==
  LET at(p) == CASE k = 1 -> AboutAt(s, p)
                 [] k = 2 -> VerbAt(s, p)
                 [] k = 3 -> StoryOfAt(s, p)
                 [] k = 4 -> ArticleAt(s, p)
      p == FirstPos({ q \in 1..Len(s) : at(q) > 0 })
  IN  IF p = 0 THEN NoMatch ELSE Match1(WordAt(s, at(p)))

\* w.charAt(0).toUpperCase() + w.slice(1).toLowerCase()
capitalize(w) == toUpperCase(charAt0(w)) \o toLowerCase(slice1(w))
\* the second captured word of twoPattern:
\* w.charAt(0).toUpperCase() + w.slice(1).slice(1).toLowerCase()
capitalizeSecond(w) == toUpperCase(charAt0(w)) \o toLowerCase(slice1(slice1(w)))

Contains(q, x) == \E k \in DOMAIN q : q[k] = x

\* the loop over characterPatterns: a name is pushed if the pattern
\* matches, its captured word is longer than 2 and the name is new
RECURSIVE patternCharacters(_, _, _)
patternCharacters(s, k, characters) ==
  IF k > 4 THEN characters
  ELSE LET m == patternMatch(s, k)
           name == capitalize(m.g1)
       IN  patternCharacters(s, k + 1,
             IF m.ok /\ Len(m.g1) > 2 /\ ~Contains(characters, name)
             THEN Append(characters, name) ELSE characters)

\* prompt.split(/\s+/): the pieces between the runs of white space
RECURSIVE split(_, _, _)
split(s, p, cur) ==
  IF p > Len(s) THEN << cur >>
  ELSE IF IsSpace(s[p]) THEN << cur >> \o split(s, SpaceEnd(s, p), << >>)
  ELSE split(s, p + 1, Append(cur, s[p]))

\* word.replace(/[^a-zA-Z]/g, "")
lettersOnly(w) == SelectSeq(w, IsLetter)

Hero == <<"H", "e", "r", "o">>

\* words[0] read without the test words.length > 0
fallbackCharacters_NoGuard(s) ==
  LET words == SelectSeq(split(s, 1, << >>), LAMBDA w : Len(w) > 4)
  IN  IF Len(words) > 0
      THEN [threw |-> FALSE, characters |-> << capitalize(lettersOnly(words[1])) >>,
            branch |-> "word", captured |-> << lettersOnly(words[1]) >>]
      ELSE [threw |-> TRUE, characters |-> << >>, branch |-> "hero", captured |-> << >>]

\* the fallback when no pattern gave a name: the first word longer than 4,
\* or "Hero".  threw is TRUE where the code would raise a TypeError.
fallbackCharacters(s) ==
  LET words == SelectSeq(split(s, 1, << >>), LAMBDA w : Len(w) > 4)
  IN  IF Len(words) > 0
      THEN [threw |-> FALSE, characters |-> << capitalize(lettersOnly(words[1])) >>,
            branch |-> "word", captured |-> << lettersOnly(words[1]) >>]
      ELSE [threw |-> FALSE, characters |-> << Hero >>,
            branch |-> "hero", captured |-> << >>]

\* the captured words behind the names of the loop over characterPatterns,
\* in the order of the names
RECURSIVE patternCaptured(_, _, _, _)
patternCaptured(s, k, characters, captured) ==
  IF k > 4 THEN captured
  ELSE LET m == patternMatch(s, k)
           name == capitalize(m.g1)
           push == m.ok /\ Len(m.g1) > 2 /\ ~Contains(characters, name)
       IN  patternCaptured(s, k + 1,
             IF push THEN Append(characters, name) ELSE characters,
             IF push THEN Append(captured, m.g1) ELSE captured)

\* the characters of generateTemplateStory(prompt, ...).  branch names the
\* code path that gave them ("two": twoPattern with one word, "twoAnd":
\* twoPattern with both words, "patterns": the characterPatterns loop,
\* "word" and "hero": the fallback) and captured the words they were made of
extractCharacters(s) ==
  LET m == twoMatch(s)
      base == capitalize(m.g1)
      found == IF m.ok
               THEN IF m.has2 THEN << base, capitalizeSecond(m.g2) >>
                    ELSE << base \o <<" ", "O", "n", "e">>, base \o <<" ", "T", "w", "o">> >>
               ELSE patternCharacters(s, 1, << >>)
  IN  IF Len(found) = 0 THEN fallbackCharacters(s)
      ELSE [threw |-> FALSE, characters |-> found,
            branch |-> IF ~m.ok THEN "patterns"
                       ELSE IF m.has2 THEN "twoAnd" ELSE "two",
            captured |-> IF ~m.ok THEN patternCaptured(s, 1, << >>, << >>)
                         ELSE IF m.has2 THEN << m.g1, m.g2 >> ELSE << m.g1 >>]

(***************************************************************************)
(* generateTemplateStory: scenes                                           *)
(***************************************************************************)
AgeGroups == {"toddler", "preschool", "elementary"}

\* sceneVariations has five entries, sceneVariations[0..4]
NumVariations == 5
Min(a, b) == IF a <= b THEN a ELSE b

\* the index into sceneVariations used by middle scene i
variationIndex(i) == Min(i + 1, NumVariations - 2)

MiddleTitles == << "The Journey", "New Friends", "The Challenge", "Discovery" >>
\* ["The Journey", ...][i] || "Adventure"
middleTitle(i) == IF i + 1 <= Len(MiddleTitles) THEN MiddleTitles[i + 1] ELSE "Adventure"

\* characters.join(" and "); charList is this list for two or more
\* characters and characters[0] for one, which is the same string
RECURSIVE join(_)
join(q) ==
  IF Len(q) = 0 THEN << >>
  ELSE IF Len(q) = 1 THEN q[1]
  ELSE q[1] \o <<" ", "a", "n", "d", " ">> \o join(Tail(q))

\* the opening scene
openingScene(characters) ==
  [ number |-> 1, title |-> << "The Beginning" >>, variation |-> -1,
    speakers |-> characters ]

\* the scene pushed by iteration i of the middle loop
middleScene(i, characters) ==
  [ number |-> i + 2, title |-> << "Scene", i + 2, middleTitle(i) >>,
    variation |-> variationIndex(i),
    speakers |-> << characters[(i % Len(characters)) + 1] >> ]

\* the ending line spoken by the character list instead of the main character
endingScene_CharList(sceneCount, characters) ==
  [ number |-> sceneCount, title |-> << "The Happy Ending" >>, variation |-> -1,
    speakers |-> << join(characters) >> ]

\* the ending scene
endingScene(sceneCount, characters) ==
  [ number |-> sceneCount, title |-> << "The Happy Ending" >>, variation |-> -1,
    speakers |-> << characters[1] >> ]

\* the loop bound off by one: i < sceneCount - 1
middleCount_OffByOne(sceneCount) == IF sceneCount - 1 > 0 THEN sceneCount - 1 ELSE 0

\* for (let i = 0; i < sceneCount - 2; i++): the number of iterations
middleCount(sceneCount) == IF sceneCount - 2 > 0 THEN sceneCount - 2 ELSE 0

templateScenes(sceneCount, characters) ==
  << openingScene(characters) >>
  \o [k \in 1..middleCount(sceneCount) |-> middleScene(k - 1, characters)]
  \o << endingScene(sceneCount, characters) >>

\* String.prototype.trim: the string without its leading and trailing
\* white space
RECURSIVE trimStart(_)
trimStart(w) == IF Len(w) > 0 /\ IsSpace(w[1]) THEN trimStart(Tail(w)) ELSE w
RECURSIVE trimEnd(_)
trimEnd(w) ==
  IF Len(w) > 0 /\ IsSpace(w[Len(w)]) THEN trimEnd(SubSeq(w, 1, Len(w) - 1)) ELSE w
trim(w) == trimEnd(trimStart(w))

\* prompt.substring(0, n)
substring0(w, n) == SubSeq(w, 1, Min(n, Len(w)))

\* the number of characters of the prompt kept in the title
TitleLimit == 60

TheAdventureOf ==
  <<"T", "h", "e", " ", "A", "d", "v", "e", "n", "t", "u", "r", "e", " ", "o", "f", " ">>

\* title: prompt.substring(0, 60).trim() || `The Adventure of ${charList}`
storyTitle(prompt, characters) ==
  LET t == trim(substring0(prompt, TitleLimit))
  IN  IF Len(t) > 0 THEN t ELSE TheAdventureOf \o join(characters)

\* the value of a call that raised an exception
Threw == [threw |-> TRUE, characters |-> << >>, scenes |-> << >>]

\* the story built from the extracted characters (ex).  The call raises a
\* TypeError where it reads a property of undefined: words[0] of an empty
\* list, or a variation outside sceneVariations.
templateStory(prompt, ex, sceneCount, ageGroup) ==
  LET scenes == templateScenes(sceneCount, ex.characters)
  IN  IF ex.threw THEN Threw
      ELSE IF \E k \in 1..Len(scenes) :
                scenes[k].variation # -1 /\ scenes[k].variation \notin 0..(NumVariations - 1)
      THEN Threw
      ELSE [threw |-> FALSE, title |-> storyTitle(prompt, ex.characters),
            characters |-> ex.characters, scenes |-> scenes]

\* generateTemplateStory(prompt, sceneCount, style, ageGroup)
generateTemplateStory(prompt, sceneCount, ageGroup) ==
  templateStory(prompt, extractCharacters(prompt), sceneCount, ageGroup)

(***************************************************************************)
(* generateTemplateStory as a function of its arguments                    *)
(***************************************************************************)
\* lengthGuide[targetLength].scenes
lengthGuide == [short |-> 3, medium |-> 5, long |-> 8]
SceneCounts == { lengthGuide[t] : t \in DOMAIN lengthGuide }

\* no call of generateTemplateStory yet
NoCall == [called |-> FALSE, prompt |-> << >>]

Synthesize ==
  /\ ~tpl.called
  /\ \E ex \in { extractCharacters(tpl.prompt) } :
       \E sceneCount \in SceneCounts, ageGroup \in AgeGroups :
         tpl' = [called |-> TRUE, prompt |-> tpl.prompt, sceneCount |-> sceneCount,
                 ageGroup |-> ageGroup,
                 branch |-> ex.branch, captured |-> ex.captured,
                 story |-> templateStory(tpl.prompt, ex, sceneCount, ageGroup)]
  /\ UNCHANGED <<hf, action, db, reply, page, videoVars, uiVars>>

(***************************************************************************)
(* generateStory and generateStoryAction                                   *)
(***************************************************************************)
ActionPrompts == { Flatten(q) : q \in SeqsUpTo(PromptPieces, MaxActionPieces) }

\* what hf.textGeneration may return, as far as convertToStructuredStory
\* reads it: the number of sentences longer than 10 characters and the
\* matches of the character-name pattern, in text order
GeneratedTexts ==
  { [sentences |-> k, characterMatches |-> m] :
      k \in 0..MaxSentences, m \in { << >>, << "Mia" >>, << "Mia", "Leo", "Mia" >> } }

\* [...new Set(q)]: the first occurrences, in order
RECURSIVE unique(_)
unique(q) ==
  IF Len(q) = 0 THEN << >>
  ELSE LET init == unique(SubSeq(q, 1, Len(q) - 1))
       IN  IF Contains(init, q[Len(q)]) THEN init ELSE Append(init, q[Len(q)])

Max(a, b) == IF a >= b THEN a ELSE b

\* for (i = 0; i < sceneCount && i * sentencesPerScene < sentences.length; i++)
RECURSIVE structuredScenes(_, _, _, _)
structuredScenes(i, sceneCount, sentencesPerScene, sentences) ==
  IF i < sceneCount /\ i * sentencesPerScene < sentences
  THEN << [number |-> i + 1, title |-> << "Scene", i + 1 >>, variation |-> -1, speakers |-> << >>] >>
       \o structuredScenes(i + 1, sceneCount, sentencesPerScene, sentences)
  ELSE << >>

\* convertToStructuredStory(text, prompt, sceneCount, style)
convertToStructuredStory(text, sceneCount) ==
  LET uniqueCharacters == SubSeq(unique(text.characterMatches), 1,
                                 Min(3, Len(unique(text.characterMatches))))
      sentencesPerScene == Max(2, text.sentences \div sceneCount)
  IN  [threw |-> FALSE, characters |-> uniqueCharacters,
       scenes |-> structuredScenes(0, sceneCount, sentencesPerScene, text.sentences)]

\* JSON.stringify(story), and parseStoryJSON of such a text: the text has no
\* fenced block (JSON.stringify escapes every line break), so JSON.parse
\* gives back the title, characters and scenes
stringify(story) == [json |-> [characters |-> story.characters, scenes |-> story.scenes]]
parseStoryJSON(response) == response.json

IdleAction ==
  [ pc |-> "idle", prompt |-> << >>, targetLength |-> "short", ageGroup |-> "preschool",
    user |-> FALSE,       \* supabase.auth.getUser() returned a user
    aiFailed |-> FALSE,   \* hf.textGeneration rejected
    source |-> "none",    \* who built the story: "ai" or "template"
    storyData |-> << >>,  \* <<storyData>> once parseStoryJSON has returned
    error |-> "none" ]    \* the error field of the returned object

\* generateStoryAction(params) is called
GenerateStoryAction ==
  /\ action.pc = "idle"
  /\ \E prompt \in ActionPrompts, targetLength \in DOMAIN lengthGuide, ageGroup \in AgeGroups :
       action' = [action EXCEPT !.pc = "getUser", !.prompt = prompt,
                                !.targetLength = targetLength, !.ageGroup = ageGroup]
  /\ UNCHANGED <<hf, tpl, db, reply, page, videoVars, uiVars>>

\* getUser returns no user: { error: "Unauthorized" }
GetUserNone ==
  /\ action.pc = "getUser"
  /\ action' = [action EXCEPT !.pc = "done", !.error = "Unauthorized"]
  /\ UNCHANGED <<hf, tpl, db, reply, page, videoVars, uiVars>>

\* the first statement of generateStory:
\* if (!hf) throw new Error("HuggingFace API not configured"),
\* which the catch block of generateStoryAction turns into { error }
generateStoryEntry(a, configured) ==
  IF configured
  THEN [a EXCEPT !.pc = "textGeneration"]
  ELSE [a EXCEPT !.pc = "done", !.error = "HuggingFace API not configured"]

\* getUser returns a user: generateStory(params) is called
GetUserOk ==
  /\ action.pc = "getUser"
  /\ action' = generateStoryEntry([action EXCEPT !.user = TRUE], hf)
  /\ UNCHANGED <<hf, tpl, db, reply, page, videoVars, uiVars>>

\* hf.textGeneration resolves: the text is converted and parsed back
TextGenerationOk ==
  /\ action.pc = "textGeneration"
  /\ \E text \in GeneratedTexts :
       action' = [action EXCEPT
         !.pc = "insert", !.source = "ai",
         !.storyData = << parseStoryJSON(stringify(
              convertToStructuredStory(text, lengthGuide[action.targetLength]))) >>]
  /\ UNCHANGED <<hf, tpl, db, reply, page, videoVars, uiVars>>

\* hf.textGeneration rejects: the catch block of generateStory returns the
\* template story; an exception of generateTemplateStory would leave
\* generateStory and end in the catch block of generateStoryAction
TextGenerationFail ==
  /\ action.pc = "textGeneration"
  /\ LET story == generateTemplateStory(action.prompt, lengthGuide[action.targetLength],
                                        action.ageGroup)
     IN  action' = IF story.threw
                   THEN [action EXCEPT !.pc = "done", !.aiFailed = TRUE, !.error = "TypeError"]
                   ELSE [action EXCEPT !.pc = "insert", !.aiFailed = TRUE, !.source = "template",
                                       !.storyData = << parseStoryJSON(stringify(story)) >>]
  /\ UNCHANGED <<hf, tpl, db, reply, page, videoVars, uiVars>>

\* the insert into stories succeeds: { story, storyData }
InsertOk ==
  /\ action.pc = "insert"
  /\ action' = [action EXCEPT !.pc = "done"]
  /\ db' = [db EXCEPT !.stories = @ + 1]
  /\ UNCHANGED <<hf, tpl, reply, page, videoVars, uiVars>>

\* the insert fails: { error: storyError.message }
InsertError ==
  /\ action.pc = "insert"
  /\ action' = [action EXCEPT !.pc = "done", !.error = "storyError"]
  /\ UNCHANGED <<hf, tpl, db, reply, page, videoVars, uiVars>>

(***************************************************************************)
(* The database and the other server actions                               *)
(***************************************************************************)
\* user_profiles.credits INTEGER DEFAULT 100
SignupCredits == 100

\* a column that is NULL
Null == "null"

\* a scenes row: scene_number, background_url (TEXT, may be NULL) and
\* duration (REAL, 0 stands for NULL and for 0: both are falsy)
SceneRow(n, url, d) == [scene_number |-> n, background_url |-> url, duration |-> d]

\* the rows followed: the credits of the user's profile, the number of rows
\* of stories and of characters, the scenes rows of the story in
\* scene_number order, and the rows of video_exports
Db(scenes) ==
  [ credits |-> SignupCredits, stories |-> 0, characters |-> 0,
    scenes |-> scenes, video_exports |-> << >> ]

NoReply == [of |-> "none", error |-> "none"]

\* addCreditsAction(amount): reads the profile and writes credits + amount
AddCreditsAction ==
  /\ db.credits < SignupCredits + 100 * MaxTopUps
  /\ \E amount \in {100},
        error \in {"Unauthorized", "Profile not found", "updateError", "none"} :
       /\ reply' = [of |-> "addCreditsAction", error |-> error]
       /\ db' = IF error = "none" THEN [db EXCEPT !.credits = @ + amount] ELSE db
  /\ UNCHANGED <<hf, action, tpl, page, videoVars, uiVars>>

\* what an action that generates an image may return in its error field
\* ("none": no error field); generateCharacterImage and
\* generateSceneBackground throw at once if hf is null
imageActionErrors(configured, notFound, dbError) ==
  {"Unauthorized", notFound}
    \cup (IF configured
          THEN {"textToImage error", "Upload failed", dbError, "none"}
          ELSE {"HuggingFace API not configured"})

\* generateCharacterAction(storyId, params): on success a characters row
\* is inserted
GenerateCharacterAction ==
  /\ db.characters < MaxCharacters
  /\ \E error \in imageActionErrors(hf, "Story not found or unauthorized", "characterError") :
       /\ reply' = [of |-> "generateCharacterAction", error |-> error]
       /\ db' = IF error = "none" THEN [db EXCEPT !.characters = @ + 1] ELSE db
  /\ UNCHANGED <<hf, action, tpl, page, videoVars, uiVars>>

\* the URL getPublicUrl gives for an uploaded background
PublicUrl == "publicUrl"

\* generateSceneBackgroundAction(sceneId, params): on success the scene's
\* background_url is set to the public URL of the uploaded image
GenerateSceneBackgroundAction ==
  \E k \in DOMAIN db.scenes,
     error \in imageActionErrors(hf, "Scene not found or unauthorized", "updateError") :
    /\ reply' = [of |-> "generateSceneBackgroundAction", error |-> error]
    /\ db' = IF error = "none"
             THEN [db EXCEPT !.scenes[k].background_url = PublicUrl]
             ELSE db
    /\ UNCHANGED <<hf, action, tpl, page, videoVars, uiVars>>

(***************************************************************************)
(* The preview page: loadData and handleExport                             *)
(***************************************************************************)
\* the page as first rendered
IdlePage ==
  [ pc              |-> "mounted",
    story           |-> FALSE,   \* the state story is not null
    scenes          |-> << >>,   \* the state scenes
    isLoading       |-> TRUE,
    isExporting     |-> FALSE,
    handlerProgress |-> << >>,   \* <<p>>: the last setExportProgress(p) of handleExport itself
    videoScenes     |-> << >>,   \* the scene list handed to generateVideo
    calls           |-> 0 ]      \* number of generateVideo calls made so far

\* .order('scene_number'): the rows by ascending scene_number
\* (UNIQUE(story_id, scene_number): no two rows share a number)
RECURSIVE orderBySceneNumber(_)
orderBySceneNumber(rows) ==
  IF Len(rows) = 0 THEN << >>
  ELSE LET k == CHOOSE i \in DOMAIN rows :
                  \A j \in DOMAIN rows : rows[i].scene_number <= rows[j].scene_number
           rest == [j \in 1..(Len(rows) - 1) |-> IF j < k THEN rows[j] ELSE rows[j + 1]]
       IN  << rows[k] >> \o orderBySceneNumber(rest)

\* loadData: the story row is read; if it is found the scenes rows are read
\* in scene_number order
LoadData ==
  /\ page.pc = "mounted"
  /\ \E found \in BOOLEAN :
       page' = IF found
               THEN [page EXCEPT !.pc = "ready", !.story = TRUE, !.isLoading = FALSE,
                                 !.scenes = orderBySceneNumber(db.scenes)]
               ELSE [page EXCEPT !.pc = "ready", !.isLoading = FALSE]
  /\ UNCHANGED <<hf, action, tpl, db, reply, videoVars, uiVars>>

\* scene.background_url || ''
imageUrlOf(scene) == IF scene.background_url \in {Null, ""} THEN "" ELSE scene.background_url
\* scene.duration || 5
durationOf(scene) == IF scene.duration = 0 THEN 5 ELSE scene.duration

\* scenes.map(scene => ({ imageUrl, duration, audioUrl: undefined }))
videoScenesOf(scenes) ==
  [k \in 1..Len(scenes) |->
     [imageUrl |-> imageUrlOf(scenes[k]), duration |-> durationOf(scenes[k]),
      audioUrl |-> NoAudio]]

\* the React state exportProgress: what handleExport set last, or the last
\* progress the generator reported through the callback
exportProgress ==
  IF page.pc = "generateVideo" /\ Len(run[page.calls].events) > 0
  THEN << run[page.calls].events[Len(run[page.calls].events)] >>
  ELSE page.handlerProgress

\* the export button is clicked.  It is rendered when a story is loaded and
\* enabled when animationScenes (one entry per scene) is not empty and no
\* export is running, so the first test of handleExport passes; the
\* handler runs up to the first await of generateVideo.
HandleExport ==
  /\ page.pc = "ready"
  /\ page.story /\ Len(page.scenes) > 0 /\ ~page.isExporting
  /\ page.calls < MaxRuns
  /\ page' = [page EXCEPT !.pc = "generateVideo", !.isExporting = TRUE,
                          !.handlerProgress = << Ev("loading", 0, 1) >>,
                          !.videoScenes = videoScenesOf(page.scenes),
                          !.calls = @ + 1]
  /\ StartCall(page.calls + 1, videoScenesOf(page.scenes))
  /\ UNCHANGED <<hf, action, tpl, db, reply, uiVars>>

\* generateVideo resolves: "Uploading video..." 95, then the upload
ExportVideoResolved ==
  /\ page.pc = "generateVideo"
  /\ run[page.calls].pc = "done"
  /\ page' = [page EXCEPT !.pc = "upload",
                          !.handlerProgress = << Ev("finalizing", 95, 1) >>]
  /\ UNCHANGED <<hf, action, tpl, db, reply, videoVars, uiVars>>

\* the catch block of handleExport
exportCatch(p) == [p EXCEPT !.pc = "failed", !.handlerProgress = << Ev("loading", 0, 1) >>]

\* generateVideo rejects
ExportVideoRejected ==
  /\ page.pc = "generateVideo"
  /\ run[page.calls].pc = "failed"
  /\ page' = exportCatch(page)
  /\ UNCHANGED <<hf, action, tpl, db, reply, videoVars, uiVars>>

\* the upload to the video-exports bucket succeeds
UploadOk ==
  /\ page.pc = "upload"
  /\ page' = [page EXCEPT !.pc = "insert"]
  /\ UNCHANGED <<hf, action, tpl, db, reply, videoVars, uiVars>>

\* the upload returns an error: throw uploadError
UploadError ==
  /\ page.pc = "upload"
  /\ page' = exportCatch(page)
  /\ UNCHANGED <<hf, action, tpl, db, reply, videoVars, uiVars>>

RECURSIVE Sum(_)
Sum(q) == IF Len(q) = 0 THEN 0 ELSE Head(q) + Sum(Tail(q))

\* the row handleExport inserts into video_exports; user_id is not given
\* and the column has no default, so it is NULL
exportRow(scenes) ==
  [ story_id |-> "story", user_id |-> Null, video_url |-> PublicUrl,
    duration |-> Sum([k \in 1..Len(scenes) |-> durationOf(scenes[k])]),
    resolution |-> "1280x720", status |-> "completed" ]

\* the constraints of CREATE TABLE video_exports on the columns of a row,
\* and the policy WITH CHECK (auth.uid() = user_id)
videoExportAccepted(row) ==
  /\ row.story_id # Null
  /\ row.user_id # Null
  /\ row.status \in {"queued", "processing", "completed", "failed"}
  /\ row.resolution \in {"480p", "720p", "1080p"}

\* insert into video_exports: a row that breaks a constraint is refused
\* and the table is left as it was
insertVideoExport(table, row) ==
  IF videoExportAccepted(row) THEN Append(table, row) ELSE table

\* await supabase.from('video_exports').insert(...) returns; its result is
\* not read.  Then "Video exported successfully!" 100 and the download.
InsertVideoExport ==
  /\ page.pc = "insert"
  /\ db' = [db EXCEPT !.video_exports = insertVideoExport(@, exportRow(page.scenes))]
  /\ page' = [page EXCEPT !.pc = "complete",
                          !.handlerProgress = << Ev("complete", 100, 1) >>]
  /\ UNCHANGED <<hf, action, tpl, reply, videoVars, uiVars>>

\* the timer set at the end of the try or of the catch block fires
ExportReset ==
  /\ page.pc \in {"complete", "failed"}
  /\ page' = [page EXCEPT !.pc = "ready", !.isExporting = FALSE,
                          !.handlerProgress = << >>]
  /\ UNCHANGED <<hf, action, tpl, db, reply, videoVars, uiVars>>

\* one step of a generateVideo call whose scenes have no audio
SilentStep(r) ==
  \/ LoadOk(r) \/ LoadFail(r)
  \/ FetchImageOk(r) \/ FetchImageFail(r)
  \/ EncodeSegmentOk(r) \/ EncodeSegmentFail(r)
  \/ WriteConcat(r)
  \/ ConcatOk(r) \/ ConcatFail(r)
  \/ ReadOutput(r)

(***************************************************************************)
(* addCreditsAction, one step per await                                    *)
(***************************************************************************)
\* calls of addCreditsAction by the same user that may be in flight together
MaxCalls == 2
TopUpCalls == 1..MaxCalls
Amounts == {50, 100}

IdleTopUp ==
  [ pc |-> "idle", amount |-> 0,
    credits |-> 0,          \* profile.credits as the select returned it
    error |-> "none",       \* the error field of the returned object
    newCredits |-> << >> ]  \* <<newCredits>> of { success: true, newCredits }
NoTopUps == [c \in TopUpCalls |-> IdleTopUp]

\* addCreditsAction(amount) is called and awaits supabase.auth.getUser()
AddCredits(c) ==
  /\ topup[c].pc = "idle"
  /\ \E amount \in Amounts :
       topup' = [topup EXCEPT ![c] = [@ EXCEPT !.pc = "getUser", !.amount = amount]]
  /\ UNCHANGED <<hf, action, tpl, db, reply, page, editor, carousel, videoVars>>

\* getUser resolves: without a user the call returns { error: "Unauthorized" },
\* with one it awaits the select of user_profiles.credits
TopUpGetUser(c) ==
  /\ topup[c].pc = "getUser"
  /\ \E user \in BOOLEAN :
       topup' = [topup EXCEPT ![c] =
                   IF user THEN [@ EXCEPT !.pc = "select"]
                   ELSE [@ EXCEPT !.pc = "done", !.error = "Unauthorized"]]
  /\ UNCHANGED <<hf, action, tpl, db, reply, page, editor, carousel, videoVars>>

\* the select resolves: without a profile the call returns
\* { error: "Profile not found" }, with one it computes newCredits and awaits
\* the update
TopUpSelect(c) ==
  /\ topup[c].pc = "select"
  /\ \E profile \in BOOLEAN :
       topup' = [topup EXCEPT ![c] =
                   IF profile THEN [@ EXCEPT !.pc = "update", !.credits = db.credits]
                   ELSE [@ EXCEPT !.pc = "done", !.error = "Profile not found"]]
  /\ UNCHANGED <<hf, action, tpl, db, reply, page, editor, carousel, videoVars>>

\* the update .update({ credits: newCredits }) resolves, with updateError or
\* with the row written
TopUpUpdate(c) ==
  /\ topup[c].pc = "update"
  /\ LET newCredits == topup[c].credits + topup[c].amount
     IN  \E updateError \in BOOLEAN :
           IF updateError
           THEN /\ topup' = [topup EXCEPT ![c] = [@ EXCEPT !.pc = "done", !.error = "updateError"]]
                /\ db' = db
           ELSE /\ topup' = [topup EXCEPT ![c] =
                               [@ EXCEPT !.pc = "done", !.newCredits = << newCredits >>]]
                /\ db' = [db EXCEPT !.credits = newCredits]
  /\ UNCHANGED <<hf, action, tpl, reply, page, editor, carousel, videoVars>>

(***************************************************************************)
(* The story editor page: loadStoryData and generateAllCharacters          *)
(***************************************************************************)
\* most entries of the characters list of a story's script
MaxScriptCharacters == 2
\* nested loadStoryData calls are counted up to MaxDepth
MaxDepth == 2

IdleEditor ==
  [ pc |-> "unmounted",
    script |-> << >>,       \* << >>: stories.script is null; <<n>>: a script
                            \* whose characters list has n entries
    scriptData |-> FALSE,   \* scriptData of the running loadStoryData is set
    isLoading |-> TRUE,
    generatingCharacters |-> FALSE,
    i |-> 0,                \* entries of charactersData the for loop has done
    depth |-> 0,            \* loadStoryData calls that have not returned
    more |-> FALSE ]        \* there are more of them than depth says

\* loadStoryData() is called: setIsLoading(true), then the stories select
EnterLoad(e) ==
  [e EXCEPT !.pc = "selectStory", !.isLoading = TRUE, !.scriptData = FALSE,
            !.depth = Min(@ + 1, MaxDepth),
            !.more = @ \/ e.depth = MaxDepth]

\* setIsLoading(false) and the return of loadStoryData: the page is idle
\* when it was the call of the effect, otherwise the generateAllCharacters
\* that awaits it goes on
ReturnLoad(e) ==
  IF e.more
  THEN { [e EXCEPT !.pc = "finally", !.isLoading = FALSE, !.more = m] : m \in BOOLEAN }
  ELSE { [e EXCEPT !.pc = IF e.depth = 1 THEN "idle" ELSE "finally",
                   !.isLoading = FALSE, !.depth = @ - 1] }

\* useEffect(() => { loadStoryData() }, [id])
MountEditor ==
  /\ editor.pc = "unmounted"
  /\ editor' = EnterLoad(editor)
  /\ UNCHANGED <<hf, action, tpl, db, reply, page, topup, carousel, videoVars>>

\* the stories select resolves, with the row or with null
SelectStory ==
  /\ editor.pc = "selectStory"
  /\ \E storyData \in BOOLEAN :
       IF ~storyData THEN editor' \in ReturnLoad(editor)
       ELSE IF editor.script # << >>
       THEN editor' = [editor EXCEPT !.scriptData = TRUE, !.pc = "selectScenes"]
       ELSE editor' = [editor EXCEPT !.pc = "selectCharacters"]
  /\ UNCHANGED <<hf, action, tpl, db, reply, page, topup, carousel, videoVars>>

\* the scenes select resolves: without rows createScenesFromScript is called
SelectScenes ==
  /\ editor.pc = "selectScenes"
  /\ editor' = [editor EXCEPT !.pc = IF Len(db.scenes) = 0 THEN "createScenes"
                                      ELSE "selectCharacters"]
  /\ UNCHANGED <<hf, action, tpl, db, reply, page, topup, carousel, videoVars>>

\* createScenesFromScript: the insert of the script's scenes resolves
CreateScenesFromScript ==
  /\ editor.pc = "createScenes"
  /\ \E data \in BOOLEAN :
       db' = IF data THEN [db EXCEPT !.scenes = << SceneRow(1, Null, 5) >>] ELSE db
  /\ editor' = [editor EXCEPT !.pc = "selectCharacters"]
  /\ UNCHANGED <<hf, action, tpl, reply, page, topup, carousel, videoVars>>

\* the characters select resolves: generateAllCharacters is called when
\* there is a script and no characters row, else loadStoryData returns
SelectCharacters ==
  /\ editor.pc = "selectCharacters"
  /\ \E charactersData \in BOOLEAN :
       IF charactersData /\ editor.scriptData /\ db.characters = 0
       THEN editor' = [editor EXCEPT !.pc = "generate", !.i = 0,
                                     !.generatingCharacters = TRUE]
       ELSE editor' \in ReturnLoad(editor)
  /\ UNCHANGED <<hf, action, tpl, db, reply, page, topup, carousel, videoVars>>

\* one pass of for (const charData of charactersData): the awaited
\* generateCharacterAction returns, its value is not read
GenerateCharacter ==
  /\ editor.pc = "generate"
  /\ editor.i < editor.script[1]
  /\ \E error \in imageActionErrors(hf, "Story not found or unauthorized", "characterError") :
       /\ reply' = [of |-> "generateCharacterAction", error |-> error]
       /\ db' = IF error = "none" THEN [db EXCEPT !.characters = @ + 1] ELSE db
  /\ editor' = [editor EXCEPT !.i = @ + 1]
  /\ UNCHANGED <<hf, action, tpl, page, topup, carousel, videoVars>>

\* after the loop: await loadStoryData()
ReloadStoryData ==
  /\ editor.pc = "generate"
  /\ editor.i = editor.script[1]
  /\ editor' = EnterLoad(editor)
  /\ UNCHANGED <<hf, action, tpl, db, reply, page, topup, carousel, videoVars>>

\* the awaited loadStoryData has returned: finally
\* { setGeneratingCharacters(false) }, and the loadStoryData that awaited
\* generateAllCharacters returns in its turn
FinishGenerateAll ==
  /\ editor.pc = "finally"
  /\ editor' \in ReturnLoad([editor EXCEPT !.generatingCharacters = FALSE])
  /\ UNCHANGED <<hf, action, tpl, db, reply, page, topup, carousel, videoVars>>

(***************************************************************************)
(* SceneCarousel and the isPlaying state of the page that renders it       *)
(***************************************************************************)
\* most scenes of a carousel
MaxCarouselScenes == 3
\* most state updates queued between two renders
MaxPending == 2

\* a carousel as its first render and its first effects leave it: the
\* committed state, the state updates queued since the last render, and the
\* interval of the auto-advance effect with what its callback closes over
\* (due: the scene's duration has elapsed since the effect ran)
Carousel(n) ==
  [ n |-> n, isPlaying |-> FALSE, currentSceneIndex |-> 0,
    updates |-> << >>, interval |-> << >> ]
NoCarousel == Carousel(1)

\* setCurrentSceneIndex((prev) => prev + 1), setCurrentSceneIndex(index) and
\* setIsPlaying(value)
AddToIndex == [state |-> "currentSceneIndex", add |-> TRUE, value |-> 1]
SetIndex(index) == [state |-> "currentSceneIndex", add |-> FALSE, value |-> index]
SetIsPlaying(value) == [state |-> "isPlaying", add |-> FALSE, value |-> value]

\* the state after the queued updates have been applied in order
RECURSIVE applyUpdates(_, _)
applyUpdates(c, updates) ==
  IF Len(updates) = 0 THEN c
  ELSE LET u == Head(updates)
           d == IF u.state = "isPlaying" THEN [c EXCEPT !.isPlaying = u.value]
                ELSE IF u.add THEN [c EXCEPT !.currentSceneIndex = @ + u.value]
                ELSE [c EXCEPT !.currentSceneIndex = u.value]
       IN  applyUpdates(d, Tail(updates))

\* scenes[currentSceneIndex] is defined
HasCurrentScene(c) == c.currentSceneIndex \in 0..(c.n - 1)

\* the auto-advance effect runs: without playback or without a current
\* scene it leaves no interval, otherwise it starts one
autoAdvanceEffect(c) ==
  IF ~c.isPlaying \/ ~HasCurrentScene(c) THEN << >>
  ELSE << [currentSceneIndex |-> c.currentSceneIndex, isPlaying |-> c.isPlaying,
           due |-> FALSE] >>

\* a render commits the queued updates; the effect's cleanup and the effect
\* run again when one of its dependencies changed, which the parent's
\* render always causes (handlePlayPause is a new function in each)
Render ==
  /\ \E parent \in BOOLEAN :
       /\ Len(carousel.updates) > 0 \/ parent
       /\ LET c == [applyUpdates(carousel, carousel.updates) EXCEPT !.updates = << >>]
              changed == \/ parent
                         \/ c.isPlaying # carousel.isPlaying
                         \/ c.currentSceneIndex # carousel.currentSceneIndex
          IN  carousel' = IF changed THEN [c EXCEPT !.interval = autoAdvanceEffect(c)] ELSE c
  /\ UNCHANGED <<hf, action, tpl, db, reply, page, topup, editor, videoVars>>

\* the interval's callback runs, 50 ms or more after the one before
IntervalTick ==
  /\ Len(carousel.interval) = 1
  /\ Len(carousel.updates) < MaxPending
  /\ LET t == carousel.interval[1]
     IN  \E due \in (IF t.due THEN {TRUE} ELSE BOOLEAN) :
           IF ~due THEN carousel' = carousel
           ELSE IF t.currentSceneIndex < carousel.n - 1
           THEN carousel' = [carousel EXCEPT !.updates = Append(@, AddToIndex),
                                             !.interval = << [t EXCEPT !.due = TRUE] >>]
           ELSE carousel' = [carousel EXCEPT !.updates = Append(@, SetIsPlaying(~t.isPlaying)),
                                             !.interval = << >>]
  /\ UNCHANGED <<hf, action, tpl, db, reply, page, topup, editor, videoVars>>

\* goToScene(index)
goToScene(c, index) ==
  IF index >= 0 /\ index < c.n THEN [c EXCEPT !.updates = Append(@, SetIndex(index))] ELSE c

\* a click on the previous button, disabled on the first scene
PreviousScene ==
  /\ HasCurrentScene(carousel) /\ carousel.currentSceneIndex # 0
  /\ Len(carousel.updates) < MaxPending
  /\ carousel' = goToScene(carousel, carousel.currentSceneIndex - 1)
  /\ UNCHANGED <<hf, action, tpl, db, reply, page, topup, editor, videoVars>>

\* a click on the next button, disabled on the last scene
NextScene ==
  /\ HasCurrentScene(carousel) /\ carousel.currentSceneIndex # carousel.n - 1
  /\ Len(carousel.updates) < MaxPending
  /\ carousel' = goToScene(carousel, carousel.currentSceneIndex + 1)
  /\ UNCHANGED <<hf, action, tpl, db, reply, page, topup, editor, videoVars>>

\* a click on a thumbnail
ThumbnailClick ==
  /\ HasCurrentScene(carousel)
  /\ Len(carousel.updates) < MaxPending
  /\ \E index \in 0..(carousel.n - 1) : carousel' = goToScene(carousel, index)
  /\ UNCHANGED <<hf, action, tpl, db, reply, page, topup, editor, videoVars>>

\* a click on play/pause: handlePlayPause of the page
HandlePlayPause ==
  /\ HasCurrentScene(carousel)
  /\ Len(carousel.updates) < MaxPending
  /\ carousel' = [carousel EXCEPT !.updates = Append(@, SetIsPlaying(~carousel.isPlaying))]
  /\ UNCHANGED <<hf, action, tpl, db, reply, page, topup, editor, videoVars>>

(***************************************************************************)
(* Specifications                                                          *)
(***************************************************************************)

\* a generator fresh from its constructor, with no file in its engine
NoFiles == [name \in {} |-> 0]
NoRuns == [r \in Runs |-> IdleFrame]

\* generateTemplateStory applied to every prompt, scene count and age group:
\* the prompt is drawn first, the call then draws the other arguments
InitTemplate ==
  /\ tpl \in { [called |-> FALSE, prompt |-> prompt] : prompt \in Prompts }
  /\ hf = TRUE
  /\ action = IdleAction
  /\ db = Db(<< >>)
  /\ loaded = FALSE
  /\ fs = NoFiles
  /\ run = NoRuns
  /\ loadsDone = 0
  /\ preload = "idle"
  /\ reply = NoReply
  /\ topup = NoTopUps
  /\ editor = IdleEditor
  /\ carousel = NoCarousel
  /\ page = IdlePage

NextTemplate == Synthesize

SpecTemplate == InitTemplate /\ [][NextTemplate]_vars

\* generateTemplateStory applied to prompts shorter and longer than the title
InitTitle ==
  /\ tpl \in { [called |-> FALSE, prompt |-> prompt] : prompt \in LongPrompts }
  /\ hf = TRUE
  /\ action = IdleAction
  /\ db = Db(<< >>)
  /\ loaded = FALSE
  /\ fs = NoFiles
  /\ run = NoRuns
  /\ loadsDone = 0
  /\ preload = "idle"
  /\ reply = NoReply
  /\ topup = NoTopUps
  /\ editor = IdleEditor
  /\ carousel = NoCarousel
  /\ page = IdlePage

SpecTitle == InitTitle /\ [][NextTemplate]_vars

\* calls of addCreditsAction by one user, whose steps interleave
NextTopUp ==
  \E c \in TopUpCalls :
    \/ AddCredits(c)
    \/ TopUpGetUser(c)
    \/ TopUpSelect(c)
    \/ TopUpUpdate(c)

\* the editor page is opened on a persisted story, with or without a script
\* and scenes rows, with or without HUGGINGFACE_API_KEY
InitEditor ==
  /\ hf \in BOOLEAN
  /\ editor \in { [IdleEditor EXCEPT !.script = sc] :
                     sc \in { << >> } \cup { << n >> : n \in 0..MaxScriptCharacters } }
  /\ db \in { Db(<< >>), Db(<< SceneRow(1, Null, 5) >>) }
  /\ action = IdleAction
  /\ tpl = NoCall
  /\ loaded = FALSE
  /\ fs = NoFiles
  /\ run = NoRuns
  /\ loadsDone = 0
  /\ preload = "idle"
  /\ reply = NoReply
  /\ topup = NoTopUps
  /\ carousel = NoCarousel
  /\ page = IdlePage

NextEditor ==
  \/ MountEditor
  \/ SelectStory
  \/ SelectScenes
  \/ CreateScenesFromScript
  \/ SelectCharacters
  \/ GenerateCharacter
  \/ ReloadStoryData
  \/ FinishGenerateAll

\* every awaited request of the page is answered
SpecEditor == InitEditor /\ [][NextEditor]_vars /\ WF_vars(NextEditor)

\* a carousel mounted with a scene list that is not empty
InitCarousel ==
  /\ carousel \in { Carousel(n) : n \in 1..MaxCarouselScenes }
  /\ hf = TRUE
  /\ editor = IdleEditor
  /\ db = Db(<< >>)
  /\ action = IdleAction
  /\ tpl = NoCall
  /\ loaded = FALSE
  /\ fs = NoFiles
  /\ run = NoRuns
  /\ loadsDone = 0
  /\ preload = "idle"
  /\ reply = NoReply
  /\ topup = NoTopUps
  /\ page = IdlePage

NextCarousel ==
  \/ Render
  \/ IntervalTick
  \/ PreviousScene
  \/ NextScene
  \/ ThumbnailClick
  \/ HandlePlayPause

SpecCarousel == InitCarousel /\ [][NextCarousel]_vars

\* one call of generateStoryAction, with or without HUGGINGFACE_API_KEY; the
\* user's story has one scene that has no background yet
InitAction ==
  /\ hf \in BOOLEAN
  /\ action = IdleAction
  /\ db = Db(<< SceneRow(1, Null, 0) >>)
  /\ tpl = NoCall
  /\ loaded = FALSE
  /\ fs = NoFiles
  /\ run = NoRuns
  /\ loadsDone = 0
  /\ preload = "idle"
  /\ reply = NoReply
  /\ topup = NoTopUps
  /\ editor = IdleEditor
  /\ carousel = NoCarousel
  /\ page = IdlePage

NextAction ==
  \/ GenerateStoryAction
  \/ GetUserNone \/ GetUserOk
  \/ TextGenerationOk \/ TextGenerationFail
  \/ InsertOk \/ InsertError

SpecAction == InitAction /\ [][NextAction]_vars

\* the server actions that generate content or change the credits, called
\* in any order
NextCredits ==
  \/ GenerateStoryAction
  \/ GetUserNone \/ GetUserOk
  \/ TextGenerationOk \/ TextGenerationFail
  \/ InsertOk \/ InsertError
  \/ AddCreditsAction \/ GenerateCharacterAction \/ GenerateSceneBackgroundAction

SpecCredits == InitAction /\ [][NextCredits]_vars

SpecTopUp == InitAction /\ [][NextTopUp]_vars

\* generateVideo and load called one after the other on the one generator
InitVideo ==
  /\ loaded = FALSE
  /\ fs = NoFiles
  /\ run = NoRuns
  /\ loadsDone = 0
  /\ preload = "idle"
  /\ reply = NoReply
  /\ topup = NoTopUps
  /\ editor = IdleEditor
  /\ carousel = NoCarousel
  /\ page = IdlePage
  /\ hf = TRUE
  /\ action = IdleAction
  /\ tpl = NoCall
  /\ db = Db(<< >>)

NextVideo ==
  \/ StartSerial
  \/ LoadSerial \/ PreloadOk \/ PreloadFail
  \/ \E r \in Runs : Step(r)

SpecVideo == InitVideo /\ [][NextVideo]_vars

\* two generateVideo calls in flight at once on the one generator
NextOverlap ==
  \/ StartAny
  \/ \E r \in Runs : Step(r)

SpecOverlap == InitVideo /\ [][NextOverlap]_vars

\* one generateVideo call on a fresh generator, with scene lists that mix
\* scenes without audio and scenes with different audio assets
AudioSceneLists == SeqsUpTo({ SilentScene, NarratedScene, NarratedScene2 }, MaxAudioScenes)

StartAudio ==
  \E scenes \in AudioSceneLists : GenerateVideo(1, scenes)

NextAudio ==
  \/ StartAudio
  \/ Step(1)

SpecAudio == InitVideo /\ [][NextAudio]_vars

\* the scenes tables of the story of the preview page: at most MaxScenes
\* rows numbered 1..n, stored in ascending or descending order, each with or
\* without a background and a duration
SceneTables ==
  UNION { { [k \in 1..n |-> SceneRow(IF up THEN k ELSE n + 1 - k, url[k], d[k])] :
              url \in [1..n -> {Null, "bg"}], d \in [1..n -> {0, 2}], up \in BOOLEAN }
          : n \in 0..MaxScenes }

\* the preview page of a story: its data is loaded and its export button
\* is used
InitExport ==
  /\ db \in { Db(scenes) : scenes \in SceneTables }
  /\ page = IdlePage
  /\ reply = NoReply
  /\ topup = NoTopUps
  /\ editor = IdleEditor
  /\ carousel = NoCarousel
  /\ loaded = FALSE
  /\ fs = NoFiles
  /\ run = NoRuns
  /\ loadsDone = 0
  /\ preload = "idle"
  /\ hf = TRUE
  /\ action = IdleAction
  /\ tpl = NoCall

NextExport ==
  \/ LoadData
  \/ HandleExport
  \/ \E r \in SerialRuns : SilentStep(r)
  \/ ExportVideoResolved \/ ExportVideoRejected
  \/ UploadOk \/ UploadError
  \/ InsertVideoExport
  \/ ExportReset

SpecExport == InitExport /\ [][NextExport]_vars

(***************************************************************************)
(* Properties                                                              *)
(***************************************************************************)
\* C1: for every prompt, age group and scene count in {3,5,8}, the story of
\* generateTemplateStory has exactly sceneCount scenes, numbered 1..sceneCount
\* in order.
C1_SceneNumbers ==
  tpl.called =>
    /\ Len(tpl.story.scenes) = tpl.sceneCount
    /\ \A k \in 1..Len(tpl.story.scenes) : tpl.story.scenes[k].number = k

\* a story of eight scenes has been built from a non-empty prompt
C1_Witness ==
  /\ tpl.called
  /\ tpl.sceneCount = 8
  /\ Len(tpl.prompt) > 0
  /\ Len(tpl.story.scenes) = 8

\* C2: in every generateVideo call that returned a Blob, the progress values
\* reported are non-decreasing over the whole call, the events of the engine
\* load included, and the last event is "complete" with progress 100.
C2_ProgressMonotone ==
  \A r \in Runs :
    run[r].pc = "done" =>
      LET e == run[r].events
      IN  /\ \A k \in 1..(Len(e) - 1) : ProgressLeq(e[k], e[k + 1])
          /\ e[Len(e)] = Ev("complete", 100, 1)

\* C3: in every generateVideo call, at every moment, the stages reported so
\* far never go back in the order loading < preparing < encoding <
\* finalizing < complete.
C3_StageMonotone ==
  \A r \in Runs :
    \A k \in 1..(Len(run[r].events) - 1) :
      StageRank(run[r].events[k].stage) <= StageRank(run[r].events[k + 1].stage)

\* a call that loaded the engine and ran the audio pass has returned
C3_Witness ==
  \E r \in Runs :
    /\ run[r].pc = "done"
    /\ run[r].didLoad
    /\ Len(AudioScenes(run[r].scenes)) > 0
    /\ Len(run[r].events) >= 8

\* C4: if the fetch or staging of the image at loop index i (scene i + 1)
\* rejects, the call rejects with the error naming scene i + 1, only the
\* images 0..i-1 were fetched, no exec was issued and no Blob is returned.
C4_ImageFailure ==
  \A r \in Runs :
    (Len(run[r].failure) = 1 /\ run[r].failure[1].step = "image") =>
      LET i == run[r].failure[1].index
      IN  /\ run[r].pc = "failed"
          /\ run[r].error = << Wrapped("scene_image", i + 1) >>
          /\ run[r].fetched = [k \in 1..i |-> k - 1]
          /\ run[r].execs = << >>
          /\ run[r].result = << >>

\* the image of scene 2 could not be fetched
C4_Witness ==
  \E r \in Runs :
    /\ run[r].failure = << [step |-> "image", index |-> 1] >>
    /\ run[r].pc = "failed"

ExpectedSegment(r, k) ==
  [by |-> r,
   data |-> [image |-> [by |-> r, data |-> run[r].scenes[k].imageUrl],
             duration |-> run[r].scenes[k].duration]]

\* C6: when the concatenation is issued, videoSegments and concat.txt list
\* segment_0 .. segment_{n-1} in this order, segment_i holds the image staged
\* for scene i with scene i's duration, and the concatenated video consists
\* of exactly these segments in this order.
C6_SegmentsInOrder ==
  \A r \in Runs :
    LET n == Len(run[r].scenes)
    IN  /\ run[r].pc = "concat" =>
             /\ run[r].videoSegments = [k \in 1..n |-> SegmentFile(k - 1)]
             /\ fs[ConcatTxt].data = run[r].videoSegments
             /\ \A k \in 1..n : fs[SegmentFile(k - 1)] = ExpectedSegment(r, k)
        /\ Len(run[r].silent) = 1 =>
             run[r].silent[1].segments = [k \in 1..n |-> ExpectedSegment(r, k)]

\* two different scenes have been encoded and are about to be concatenated
C6_Witness ==
  \E r \in Runs :
    /\ run[r].pc = "concat"
    /\ Len(run[r].scenes) = 2
    /\ run[r].scenes[1] # run[r].scenes[2]

\* C7: whenever the AI call failed or the AI client is not available, an
\* authenticated call of generateStoryAction ends with a story built by the
\* template synthesizer, never with an error that comes from the AI side.
C7_AlwaysFallsBack ==
  (action.pc = "done" /\ action.user /\ (~hf \/ action.aiFailed)) =>
    /\ action.source = "template"
    /\ action.error \in {"none", "storyError"}

\* C8: generateTemplateStory never raises an exception, and for the empty
\* prompt its characters are exactly the one character "Hero".
C8_NeverThrows ==
  tpl.called =>
    /\ ~tpl.story.threw
    /\ tpl.prompt = << >> => tpl.story.characters = << Hero >>

\* the story of the empty prompt has been built
C8_Witness ==
  /\ tpl.called
  /\ tpl.prompt = << >>
  /\ tpl.story.characters = << Hero >>

\* C9: the engine is initialised at most once per generator, also when
\* calls start before an earlier load has finished.
C9_LoadAtMostOnce == loadsDone <= 1

\* C10: when a generateVideo call has ended, no file it wrote is left in the
\* engine filesystem.
C10_WorkingFilesReleased ==
  \A r \in Runs :
    Ended(r) => \A name \in DOMAIN fs : fs[name].by # r

\* C11: the character names of a story built by generateTemplateStory are
\* pairwise distinct, for every prompt.
C11_NamesDistinct ==
  (tpl.called /\ ~tpl.story.threw) =>
    \A i, j \in DOMAIN tpl.story.characters :
      i # j => tpl.story.characters[i] # tpl.story.characters[j]

\* C14: a prompt that matches twoPattern gives exactly two characters: the
\* capitalized word with " One" and " Two" if one word was captured, the
\* two captured words, capitalized, if a second word follows "and".
C14_TwoPattern ==
  tpl.called =>
    LET m == twoMatch(tpl.prompt)
        names == tpl.story.characters
    IN  m.ok =>
          /\ ~tpl.story.threw
          /\ Len(names) = 2
          /\ ~m.has2 => names = << capitalize(m.g1) \o <<" ", "O", "n", "e">>,
                                   capitalize(m.g1) \o <<" ", "T", "w", "o">> >>
          /\ m.has2 => names = << capitalize(m.g1), capitalize(m.g2) >>

\* C15: every name made of a captured word w is the first letter of w in
\* upper case followed by the other letters of w in lower case, in every
\* branch of the extraction.
C15_NameIsCapitalizedWord ==
  (tpl.called /\ ~tpl.story.threw) =>
    LET names == tpl.story.characters
    IN  /\ tpl.branch \in {"twoAnd", "patterns", "word"} =>
             /\ Len(names) = Len(tpl.captured)
             /\ \A k \in DOMAIN names : names[k] = capitalize(tpl.captured[k])
        /\ tpl.branch = "two" =>
             \A k \in DOMAIN names :
               SubSeq(names[k], 1, Len(tpl.captured[1])) = capitalize(tpl.captured[1])

\* documented costs of the generation actions, in credits
StoryCost == 10
CharacterCost == 5
BackgroundCost == 3

\* C12: a generation action that succeeds takes its documented cost from
\* the user's credits: 10 for a story, 5 for a character, 3 for a scene
\* background.
C12_CreditsDeducted ==
  [][ /\ db'.stories = db.stories + 1 => db'.credits = db.credits - StoryCost
      /\ db'.characters = db.characters + 1 => db'.credits = db.credits - CharacterCost
      /\ db'.scenes # db.scenes => db'.credits = db.credits - BackgroundCost ]_vars

\* C13: when handleExport reports "complete" (the video was generated and
\* uploaded), video_exports holds a row for the story.
C13_ExportRecorded ==
  page.pc = "complete" =>
    \E k \in DOMAIN db.video_exports : db.video_exports[k].story_id = "story"

\* C17: every scene list handleExport hands to generateVideo is not empty,
\* has one entry per scenes row in scene_number order, and every imageUrl
\* in it is set.
C17_ExportScenesValid ==
  page.calls > 0 =>
    LET given == run[page.calls].scenes
        rows == orderBySceneNumber(db.scenes)
    IN  /\ Len(given) > 0
        /\ Len(given) = Len(rows)
        /\ \A k \in DOMAIN given :
             /\ given[k].imageUrl # ""
             /\ given[k].imageUrl = rows[k].background_url
             /\ given[k].duration = durationOf(rows[k])

\* C16: a story built by convertToStructuredStory has exactly the requested
\* number of scenes, numbered 1..sceneCount in order, whatever the generated
\* text.
C16_AiSceneCount ==
  (action.source = "ai" /\ Len(action.storyData) = 1) =>
    LET scenes == action.storyData[1].scenes
    IN  /\ Len(scenes) = lengthGuide[action.targetLength]
        /\ \A k \in DOMAIN scenes : scenes[k].number = k

\* the frame has reported "complete"
ReportedComplete(f) == \E k \in DOMAIN f.events : f.events[k].stage = "complete"

\* C18: once a call has reported "complete" or has failed, it reports no
\* further progress event, and a call that fails has not reported
\* "complete".
C18_TerminalAbsorbing ==
  [][ \A r \in Runs :
        /\ (ReportedComplete(run[r]) \/ run[r].pc = "failed")
             => run'[r].events = run[r].events
        /\ run'[r].pc = "failed" => ~ReportedComplete(run'[r]) ]_vars

\* of two overlapping calls one has completed and the other has failed
\* while encoding
C18_Witness ==
  /\ run[1].pc = "done" /\ ReportedComplete(run[1])
  /\ run[2].pc = "failed"
  /\ \E k \in DOMAIN run[2].events : run[2].events[k].stage = "encoding"

\* C19: overlapping calls on the one generator use the same file names: the
\* image a call staged for scene i lies in scene_i.png, where it is
\* replaced by what a later call stages for its scene i, and likewise for
\* segment_i.mp4, concat.txt and output_video.mp4.
C19_SharedFileNames ==
  \A r \in Runs :
    /\ \A k \in DOMAIN run[r].fetched :
         LET name == SceneFile(run[r].fetched[k])
         IN  /\ name \in DOMAIN fs
             /\ fs[name].by # r =>
                  \E k2 \in DOMAIN run[fs[name].by].fetched :
                    run[fs[name].by].fetched[k2] = run[r].fetched[k]
    /\ \A k \in DOMAIN run[r].videoSegments :
         LET name == run[r].videoSegments[k]
         IN  /\ name \in DOMAIN fs
             /\ fs[name].by # r => name \in Range(run[fs[name].by].videoSegments)
    /\ Len(run[r].silent) = 1 =>
         /\ ConcatTxt \in DOMAIN fs /\ OutputVideo \in DOMAIN fs
         /\ fs[OutputVideo].by # r => Len(run[fs[OutputVideo].by].silent) = 1

\* a call has returned a video in which a segment shows an image that the
\* other call staged and that is not the image of the call's own scene
C19_Witness ==
  \E r \in Runs :
    /\ run[r].pc = "done"
    /\ Len(run[r].result) = 1 /\ run[r].result = run[r].silent
    /\ \E k \in DOMAIN run[r].result[1].segments :
         /\ k \in DOMAIN run[r].scenes
         /\ run[r].result[1].segments[k].data.image.by # r
         /\ run[r].result[1].segments[k].data.image.data # run[r].scenes[k].imageUrl

\* C20: if the exec that encodes the segment of loop index i (scene i + 1)
\* rejects, the call rejects with the error naming scene i + 1; if the
\* exec of the concatenation rejects, the call rejects with the error of the
\* concatenation.  In both cases no later exec was issued, no later stage
\* was reported and no Blob is returned.
C20_EncodeFailure ==
  \A r \in Runs :
    /\ (Len(run[r].failure) = 1 /\ run[r].failure[1].step = "segment") =>
         LET i == run[r].failure[1].index
         IN  /\ run[r].pc = "failed"
             /\ run[r].error = << Wrapped("scene_encode", i + 1) >>
             /\ run[r].videoSegments = [k \in 1..i |-> SegmentFile(k - 1)]
             /\ Len(run[r].execs) = i
             /\ \A k \in DOMAIN run[r].events :
                  run[r].events[k].stage \in {"loading", "preparing", "encoding"}
             /\ run[r].silent = << >>
             /\ run[r].result = << >>
    /\ (Len(run[r].failure) = 1 /\ run[r].failure[1].step = "concat") =>
         /\ run[r].pc = "failed"
         /\ run[r].error = << Wrapped("combine", 0) >>
         /\ \A k \in DOMAIN run[r].execs : run[r].execs[k].cmd = "segment"
         /\ run[r].events[Len(run[r].events)] = Ev("encoding", 70, 1)
         /\ run[r].silent = << >>
         /\ run[r].result = << >>

\* the segment of scene 2 could not be encoded, after that of scene 1 was
C20_Witness ==
  \E r \in Runs :
    /\ run[r].failure = << [step |-> "segment", index |-> 1] >>
    /\ run[r].pc = "failed"
    /\ Len(run[r].execs) = 1

\* the audio asset a call r staged for its k-th scene with audio
StagedAudio(r, k) == [by |-> r, data |-> AudioScenes(run[r].scenes)[k].audioUrl]

\* C21: with no scene that has an audioUrl the audio pass issues no exec;
\* with one, its audio is muxed directly onto output_video.mp4; with more,
\* the audio of exactly the scenes that have an audioUrl is concatenated in
\* scene order into combined_audio.aac, which is then muxed onto the video.
C21_AudioPass ==
  \A r \in Runs :
    LET m == Len(AudioScenes(run[r].scenes))
        audioExecs == SelectSeq(run[r].execs, LAMBDA e : e.cmd \in {"mux", "audio_concat"})
    IN  /\ m = 0 => audioExecs = << >>
        /\ (run[r].pc = "done" /\ ~run[r].audioFailed /\ m = 1) =>
             /\ audioExecs = << Exec("mux", << OutputVideo, AudioFile(0) >>, 0, FinalOutput) >>
             /\ run[r].result = << [video |-> [by |-> r, data |-> run[r].silent[1]],
                                    audio |-> StagedAudio(r, 1)] >>
        /\ (run[r].pc = "done" /\ ~run[r].audioFailed /\ m > 1) =>
             /\ audioExecs =
                  << Exec("audio_concat", [k \in 1..m |-> AudioFile(k - 1)], 0, CombinedAudio),
                     Exec("mux", << OutputVideo, CombinedAudio >>, 0, FinalOutput) >>
             /\ run[r].result =
                  << [video |-> [by |-> r, data |-> run[r].silent[1]],
                      audio |-> [by |-> r,
                                 data |-> [tracks |-> [k \in 1..m |-> StagedAudio(r, k)]]]] >>

\* a call with a silent scene between two scenes with different audio has
\* returned the video with the combined track
C21_Witness ==
  /\ run[1].pc = "done" /\ ~run[1].audioFailed
  /\ run[1].scenes = << NarratedScene2, SilentScene, NarratedScene >>

\* C22: the k-th middle scene (k = 0, 1, ...; scene number k + 2) takes its
\* title and its variation (setting and action sentence) from entry k mod 4
\* of the list Journey, New Friends, Challenge, Discovery.
C22_VariationCycle ==
  (tpl.called /\ ~tpl.story.threw) =>
    \A n \in DOMAIN tpl.story.scenes :
      (1 < n /\ n < Len(tpl.story.scenes)) =>
        LET k == n - 2
            scene == tpl.story.scenes[n]
        IN  /\ scene.title = << "Scene", n, MiddleTitles[(k % 4) + 1] >>
            /\ scene.variation = k % 4
\* C23: the title of a synthesized story is 'The Adventure of <character
\* list>' when the prompt is empty after trimming; else the first 60
\* characters of the prompt followed by an ellipsis when the prompt is longer
\* than 60 characters; else the prompt itself
Ellipsis == <<".", ".", ".">>
C23_Title ==
  (tpl.called /\ ~tpl.story.threw) =>
    tpl.story.title \in
      ( IF Len(trim(tpl.prompt)) = 0
        THEN { TheAdventureOf \o join(tpl.story.characters) }
        ELSE IF Len(tpl.prompt) > TitleLimit
        THEN { SubSeq(tpl.prompt, 1, TitleLimit) \o Ellipsis,
               trim(SubSeq(tpl.prompt, 1, TitleLimit)) \o Ellipsis }
        ELSE { tpl.prompt, trim(tpl.prompt) } )

\* C24: every progress value passed to onProgress by load and generateVideo
\* is an integer between 0 and 100, whatever the number of scenes
C24_IntegerProgress ==
  \A r \in Runs :
    \A k \in 1..Len(run[r].events) :
      LET e == run[r].events[k]
      IN  /\ e.num % e.den = 0
          /\ 0 <= e.num
          /\ e.num <= 100 * e.den

\* C25: in every story generateTemplateStory returns for a scene count of at
\* least 3, the character of every dialogue line is one of the story's
\* characters
C25_SpeakersAreCharacters ==
  (tpl.called /\ ~tpl.story.threw /\ tpl.sceneCount >= 3) =>
    \A k \in 1..Len(tpl.story.scenes) :
      \A j \in 1..Len(tpl.story.scenes[k].speakers) :
        \E c \in 1..Len(tpl.story.characters) :
          tpl.story.scenes[k].speakers[j] = tpl.story.characters[c]

\* a story of two characters whose second middle scene is spoken by the
\* second character
C25_Witness ==
  /\ tpl.called /\ ~tpl.story.threw /\ tpl.sceneCount >= 4
  /\ Len(tpl.story.characters) = 2
  /\ tpl.story.characters[1] # tpl.story.characters[2]
  /\ tpl.story.scenes[3].speakers = << tpl.story.characters[2] >>
  /\ tpl.story.scenes[1].speakers = tpl.story.characters

\* C26: every character name of a story generateTemplateStory returns is a
\* non-empty string, for any prompt
C26_NamesNonEmpty ==
  (tpl.called /\ ~tpl.story.threw) =>
    \A c \in 1..Len(tpl.story.characters) : Len(tpl.story.characters[c]) > 0

\* the sum of the amounts of the calls that returned { success: true }
RECURSIVE AmountsAdded(_)
AmountsAdded(c) ==
  IF c = 0 THEN 0
  ELSE AmountsAdded(c - 1)
       + (IF topup[c].pc = "done" /\ topup[c].error = "none" THEN topup[c].amount ELSE 0)

\* C27: when no call of addCreditsAction is in flight, the stored credits
\* are the initial credits plus the amounts of the calls that succeeded
C27_NoLostUpdate ==
  (\A c \in TopUpCalls : topup[c].pc \in {"idle", "done"}) =>
    db.credits = SignupCredits + AmountsAdded(MaxCalls)

\* C28: loading the story editor page ends: isLoading becomes false and
\* stays false
C28_LoadingEnds == <>[](~editor.isLoading)

\* C29: in a SceneCarousel with a scene list that is not empty,
\* currentSceneIndex stays within 0..scenes.length - 1
C29_IndexInRange == HasCurrentScene(carousel)

\* an export is under way and has not failed
ExportRunning == page.pc \in {"generateVideo", "upload", "insert", "complete"}

\* C30: during one export the progress shown (exportProgress) never goes
\* back: neither its progress value nor its stage
C30_NoRegress ==
  [][ (ExportRunning /\ ExportRunning') =>
        /\ ProgressLeq(exportProgress[1], exportProgress'[1])
        /\ StageRank(exportProgress[1].stage) <= StageRank(exportProgress'[1].stage) ]_vars

====
